---- MODULE Spec2Model ----
(***************************************************************************)
(* The session orchestrator of the TexLab language server (src/server.rs): *)
(* the message loop, the worker pool with its forked snapshots, the        *)
(* document edits, the configuration handling and the build coordinator.   *)
(***************************************************************************)
EXTENDS Integers, Sequences, FiniteSets, TLC

(***************************************************************************)
(* Bounds of the model.                                                    *)
(***************************************************************************)
\* client messages put on the protocol inbound channel in one run
MaxMsgs == 3
\* jobs submitted to the worker pool in one run
MaxJobs == 4
\* client messages in one run of the configuration and the threads specification
MaxConfigMsgs == 2
\* length of a document text in the edit specification
MaxLen == 3
\* content changes carried by one didChange in the edit specification
MaxChanges == 2
\* notifications handled in one run of the edit specification
MaxEdits == 2
\* client messages in one run of the build specification
MaxBuildMsgs == 4

(***************************************************************************)
(* URIs.  Two local sources, the log of a build and one URI that is no     *)
(* file path.                                                              *)
(***************************************************************************)
FileA == "file:///a.tex"
FileB == "file:///b.tex"
LogA == "file:///a.log"
Untitled == "untitled:c"
URIS == {FileA, FileB, LogA, Untitled}

\* Url::to_file_path succeeds only for a file: URI
to_file_path_ok(uri) == uri \in {FileA, FileB, LogA}

\* URIs as clients write them; normalize_uri lowercases the scheme
RawA == "FILE:///a.tex"
RAWURIS == URIS \cup {RawA}
normalize_uri(raw) == IF raw = RawA THEN FileA ELSE raw

(***************************************************************************)
(* Texts are sequences of characters.  NL ends a line; INC abbreviates an  *)
(* inclusion command whose target is FileB.                                *)
(***************************************************************************)
NL == "\n"
INC == "i"
CHARS == {"a", INC, NL}

RECURSIVE TextsUpTo(_)
TextsUpTo(n) ==
    IF n = 0 THEN {<<>>}
    ELSE LET S == TextsUpTo(n - 1)
         IN S \cup {Append(t, c) : t \in {s \in S : Len(s) = n - 1}, c \in CHARS}

\* LineIndex::new: the offsets at which the lines of the text start
RECURSIVE LineStartsFrom(_, _)
LineStartsFrom(text, k) ==
    IF k > Len(text) THEN <<>>
    ELSE IF text[k] = NL THEN <<k>> \o LineStartsFrom(text, k + 1)
    ELSE LineStartsFrom(text, k + 1)

LineIndex(text) == <<0>> \o LineStartsFrom(text, 1)

\* LineIndex::offset_lsp_range for one position: start of the line plus column
Offset(index, pos) == index[pos.line + 1] + pos.character

\* the positions of a text that lie inside it, and the ranges between them
LineLen(text, index, l) ==
    (IF l + 1 < Len(index) THEN index[l + 2] - 1 ELSE Len(text)) - index[l + 1]

Positions(text) ==
    LET index == LineIndex(text)
    IN {p \in [line : 0 .. Len(index) - 1, character : 0 .. Len(text)] :
           p.character <= LineLen(text, index, p.line)}

\* String::replace_range
replace_range(text, from, to, new) ==
    SubSeq(text, 1, from) \o new \o SubSeq(text, to + 1, Len(text))

Min(a, b) == IF a <= b THEN a ELSE b

\* one content change: range = NoRange replaces the whole text
NoRange == [none |-> TRUE]
StaleOffset(text, index, pos) ==
    Min(index[Min(pos.line + 1, Len(index))] + pos.character, Len(text))

ApplyChangeStale(text, index, change) ==
    IF change.range = NoRange THEN change.text
    ELSE LET from == StaleOffset(text, index, change.range.start)
             to == StaleOffset(text, index, change.range.end)
         IN replace_range(text, Min(from, to), to, change.text)

ApplyChange(text, change) ==
    IF change.range = NoRange THEN change.text
    ELSE LET index == LineIndex(text)
         IN replace_range(text, Offset(index, change.range.start),
                          Offset(index, change.range.end), change.text)

\* an apply_document_edit that builds the line index once, from the
\* text before the first change
RECURSIVE ApplyStaleFrom(_, _, _)
ApplyStaleFrom(text, index, changes) ==
    IF changes = <<>> THEN text
    ELSE ApplyStaleFrom(ApplyChangeStale(text, index, Head(changes)), index, Tail(changes))

apply_document_edit_stale(old_text, changes) ==
    ApplyStaleFrom(old_text, LineIndex(old_text), changes)

RECURSIVE apply_document_edit(_, _)
apply_document_edit(old_text, changes) ==
    IF changes = <<>> THEN old_text
    ELSE apply_document_edit(ApplyChange(old_text, Head(changes)), Tail(changes))

\* str::lines: the pieces between line ends, without a last empty piece
Lines(text) ==
    LET index == LineIndex(text)
        piece(k) == SubSeq(text, index[k] + 1, index[k] + LineLen(text, index, k - 1))
        all == [k \in 1 .. Len(index) |-> piece(k)]
    IN IF all[Len(all)] = <<>> THEN SubSeq(all, 1, Len(all) - 1) ELSE all

\* old.lines().zip(new.lines()).position(|(a, b)| a != b).unwrap_or_default()
FirstChangedLine(old_text, new_text) ==
    LET a == Lines(old_text)
        b == Lines(new_text)
        diff == {k \in 1 .. Min(Len(a), Len(b)) : a[k] # b[k]}
    IN IF diff = {} THEN 0
       ELSE (CHOOSE k \in diff : \A m \in diff : k <= m) - 1

(***************************************************************************)
(* Options and their JSON form.                                            *)
(***************************************************************************)
\* Options::default
DefaultOptions ==
    [build_on_save |-> FALSE, chktex_on_open_and_save |-> FALSE,
     chktex_on_edit |-> FALSE,
     forward_search |-> [executable |-> FALSE, args |-> FALSE],
     aux_directory |-> "none"]

\* options a client configures: build on save, the linter on open and on edit,
\* forward search with executable and arguments
CustomOptions ==
    [build_on_save |-> TRUE, chktex_on_open_and_save |-> TRUE,
     chktex_on_edit |-> TRUE,
     forward_search |-> [executable |-> TRUE, args |-> TRUE],
     aux_directory |-> "build"]

\* options that only configure forward search and the auxiliary directory
SearchOptions ==
    [DefaultOptions EXCEPT !.forward_search = [executable |-> TRUE, args |-> TRUE],
                           !.aux_directory = "build"]

\* options that name the executable of forward search and no arguments, and
\* the other way round
ExecutableOptions == [DefaultOptions EXCEPT !.forward_search.executable = TRUE]
ArgsOptions == [DefaultOptions EXCEPT !.forward_search.args = TRUE]

\* options that only turn on the build on save
BuildOptions == [DefaultOptions EXCEPT !.build_on_save = TRUE]

\* JSON values of a settings field: a number (no options), null, an object
Json42 == [json |-> "number"]
JsonNull == [json |-> "null"]
JsonOptions(options) == [json |-> "object", options |-> options]
SETTINGS == {Json42, JsonNull, JsonOptions(CustomOptions)}

\* serde_json::from_value::<Option<Options>>
from_value(value) ==
    IF value.json = "object" THEN [ok |-> TRUE, options |-> value.options, some |-> TRUE]
    ELSE IF value.json = "null" THEN [ok |-> TRUE, options |-> DefaultOptions, some |-> FALSE]
    ELSE [ok |-> FALSE, options |-> DefaultOptions, some |-> FALSE]

ShowMessageWarning == [type |-> "notification", method |-> "window/showMessage", typ |-> "WARNING"]

\* ServerFork::parse_options: the options to use and the messages sent to the client
parse_options_silent(value) ==
    LET parsed == from_value(value)
    IN [options |-> IF parsed.ok /\ parsed.some THEN parsed.options ELSE DefaultOptions,
        sent |-> {}]

parse_options(value) ==
    LET parsed == from_value(value)
    IN [options |-> IF parsed.ok /\ parsed.some THEN parsed.options ELSE DefaultOptions,
        sent |-> IF parsed.ok THEN {} ELSE {ShowMessageWarning}]

(***************************************************************************)
(* Documents and the workspace.                                            *)
(***************************************************************************)
LANGUAGES == {"latex", "bibtex", "log"}

\* DocumentLanguage::by_language_id(..).unwrap_or(DocumentLanguage::Latex)
by_language_id(language_id) ==
    IF language_id \in {"latex", "bibtex"} THEN language_id ELSE "latex"

Document(text, language) == [text |-> text, language |-> language]

Put(f, k, v) == [x \in DOMAIN f \cup {k} |-> IF x = k THEN v ELSE f[x]]
Drop(f, k) == [x \in DOMAIN f \ {k} |-> f[x]]
Range(f) == {f[x] : x \in DOMAIN f}
NoDocuments == [x \in {} |-> Document(<<>>, "latex")]

\* Workspace::new / Workspace::default
NewWorkspace(caps) ==
    [docs |-> NoDocuments, viewport |-> {}, options |-> DefaultOptions,
     resolver |-> "default", caps |-> caps]

NoCaps == [pull |-> FALSE, push |-> FALSE]
DefaultWorkspace == NewWorkspace(NoCaps)

\* WorkspaceEvent::Changed(workspace, document)
Changed(workspace, uri) == [workspace |-> workspace, uri |-> uri]

\* Workspace::open: insert or replace the document, then tell the listeners
Workspace_open(ws, uri, text, language) ==
    LET new == [ws EXCEPT !.docs = Put(ws.docs, uri, Document(text, language))]
    IN [ws |-> new, events |-> <<Changed(new, uri)>>]

\* Workspace::get
Workspace_has(ws, uri) == uri \in DOMAIN ws.docs

\* Workspace::close
Workspace_close(ws, uri) == [ws EXCEPT !.viewport = ws.viewport \ {uri}]

\* Workspace::remove
Workspace_remove(ws, uri) ==
    IF Workspace_has(ws, uri) THEN [ws EXCEPT !.docs = Drop(ws.docs, uri)] ELSE ws

\* what reading a file gives: an I/O error or its text
IoError == [io |-> "error"]
FileRead(text) == [io |-> "ok", text |-> text]

\* DocumentLanguage::by_path: .log is a build log, .tex a LaTeX source
by_path(uri) == IF uri = LogA THEN "log" ELSE "latex"

\* Workspace::load: read the file, language from the extension, open
Workspace_load(ws, uri, read) ==
    IF read = IoError THEN [ws |-> ws, events |-> <<>>, ok |-> FALSE]
    ELSE LET opened == Workspace_open(ws, uri, read.text, by_path(uri))
         IN [ws |-> opened.ws, events |-> opened.events, ok |-> TRUE]

\* Workspace::reload: re-read a document of the workspace; nothing if unknown
Workspace_reload(ws, uri, read) ==
    IF ~Workspace_has(ws, uri) THEN [ws |-> ws, events |-> <<>>, ok |-> TRUE]
    ELSE Workspace_load(ws, uri, read)

\* the inclusion references of a document, from its syntax
Links(doc) ==
    IF doc.language = "latex" /\ INC \in Range(doc.text) THEN {FileB} ELSE {}

\* two documents of the workspace are linked when one includes the other
Linked(ws, x, y) == y \in Links(ws.docs[x]) \/ x \in Links(ws.docs[y])

RECURSIVE Closure(_, _)
Closure(ws, S) ==
    LET more == S \cup {y \in DOMAIN ws.docs : \E x \in S : Linked(ws, x, y)}
    IN IF more = S THEN S ELSE Closure(ws, more)

\* Workspace::slice: the target and its inclusion closure; nothing for an
\* unknown target
Workspace_slice(ws, uri) ==
    IF ~Workspace_has(ws, uri) THEN DefaultWorkspace
    ELSE LET keep == Closure(ws, {uri})
         IN [ws EXCEPT !.docs = [x \in keep |-> ws.docs[x]]]

\* the enumerations of a finite set, for an iteration whose order is unspecified
RECURSIVE Orders(_)
Orders(S) ==
    IF S = {} THEN {<<>>}
    ELSE UNION {{<<x>> \o rest : rest \in Orders(S \ {x})} : x \in S}

(***************************************************************************)
(* The state of the server.                                                *)
(***************************************************************************)
VARIABLES
    inbound,      \* connection.receiver: the protocol messages not yet taken
    internal,     \* internal_rx: the internal messages not yet taken
    workspace,    \* Server::workspace
    watched,      \* the directories registered with the file watcher
    pool,         \* the jobs of the worker pool that have not finished
    nextJob,      \* the number of the next job
    outbound,     \* connection.sender: what was sent to the client
    loop,         \* where Server::run is
    positions,    \* build_engine.positions_by_uri
    locks,        \* the build engine's per-root locks
    compiled,     \* the compiler runs so far
    events,       \* the channel of workspace events to the diagnostic thread
    pending,      \* the debouncer's pending workspace
    diagnostics,  \* the diagnostic manager's buffers
    nsent,        \* the client messages sent so far
    nfile,        \* the file events raised so far
    effects,      \* history: the notifications in the order they took effect
    handled,      \* history: the messages in the order the loop took them
    lastMutation, \* history: per URI, the text of the last didOpen or didChange
    thread,       \* the event the diagnostic thread has pushed and not yet submitted
    window,       \* history: the submissions to the debouncer since its last delivery
    delivered     \* history: the deliveries of the debouncer

vars ==
    <<inbound, internal, workspace, watched, pool, nextJob, outbound, loop,
      positions, locks, compiled, events, pending, diagnostics, nsent, nfile,
      effects, handled, lastMutation, thread, window, delivered>>

\* what a message sent to the client is filed under: the message and the
\* client message or job that caused it
Sent(msg, cause) == [msg |-> msg, cause |-> cause, known |-> TRUE, method |-> ""]

NoPosition == [line |-> 0 - 1, character |-> 0 - 1]
Position(line, character) == [line |-> line, character |-> character]

(***************************************************************************)
(* Forks and jobs.                                                         *)
(***************************************************************************)
\* the build engine every fork shares (Arc::clone)
SharedEngine == 0

\* a fork that carries a workspace of its own making instead of the clone
ForkDefault(ws) == [workspace |-> DefaultWorkspace, build_engine |-> SharedEngine]

\* a fork that carries a build engine made for its snapshot instead of the
\* shared one
ForkOwnEngine(ws) == [workspace |-> ws, build_engine |-> ws]

\* Server::fork: the workspace is cloned, the handles are shared
Fork(ws) == [workspace |-> ws, build_engine |-> SharedEngine]

\* FeatureRequest { params, workspace: workspace.slice(uri), uri }
\* a request that is given the target document alone
FeatureRequestTarget(ws, uri, params) ==
    [params |-> params,
     workspace |-> IF Workspace_has(ws, uri)
                   THEN [ws EXCEPT !.docs = [x \in {uri} |-> ws.docs[x]]]
                   ELSE DefaultWorkspace,
     uri |-> uri]

FeatureRequest(ws, uri, params) ==
    [params |-> params, workspace |-> Workspace_slice(ws, uri), uri |-> uri]

NoRequest == [none |-> TRUE]
NoParams == [none |-> TRUE]

\* a job as Server::spawn submits it: the closure and the fork it will get
Job(kind, ws, id, method, uri, params, request, cause) ==
    [kind |-> kind, fork |-> Fork(ws), pc |-> "queued", id |-> id,
     method |-> method, uri |-> uri, params |-> params, request |-> request,
     cause |-> cause, value |-> NoParams, atDispatch |-> ws,
     expect |-> IF uri \in URIS THEN lastMutation[uri] ELSE <<"none">>]

\* what a handler of the session loop did: the workspace it leaves, the
\* events it emitted, the jobs it spawned, what it sent, the positions, the
\* directories it watched and whether it returned an error
Outcome(ws, evs, jobs, sent, pos, dirs, err) ==
    [ws |-> ws, events |-> evs, jobs |-> jobs, sent |-> sent, positions |-> pos,
     dirs |-> dirs, err |-> err]

(***************************************************************************)
(* The handlers of the session loop, as functions of the workspace.        *)
(***************************************************************************)
\* Server::run_chktex
run_chktex(ws, uri, cause) ==
    Job("chktex", ws, 0, "", uri, NoParams, NoRequest, cause)

\* a reparse that opens every document again as a LaTeX source
RECURSIVE ReopenAllLatex(_, _)
ReopenAllLatex(ws, order) ==
    IF order = <<>> THEN [ws |-> ws, events |-> <<>>]
    ELSE LET doc == ws.docs[Head(order)]
             opened == Workspace_open(ws, Head(order), doc.text, "latex")
             rest == ReopenAllLatex(opened.ws, Tail(order))
         IN [ws |-> rest.ws, events |-> opened.events \o rest.events]

\* Server::reparse_all: every document is opened again with its own text and
\* language, in the order the iteration gives; then the directory is watched
RECURSIVE ReopenAll(_, _)
ReopenAll(ws, order) ==
    IF order = <<>> THEN [ws |-> ws, events |-> <<>>]
    ELSE LET doc == ws.docs[Head(order)]
             opened == Workspace_open(ws, Head(order), doc.text, doc.language)
             rest == ReopenAll(opened.ws, Tail(order))
         IN [ws |-> rest.ws, events |-> opened.events \o rest.events]

reparse_all(ws, order) ==
    LET reopened == ReopenAll(ws, order)
    IN [ws |-> reopened.ws, events |-> reopened.events,
        dirs |-> IF ws.options.aux_directory = "none" THEN {"."}
                 ELSE {ws.options.aux_directory}]

\* a loop that reparses before it installs what the internal message carries
set_internal_late(ws, m, order) ==
    LET reparsed == reparse_all(ws, order)
    IN Outcome(IF m.type = "SetDistro"
               THEN [reparsed.ws EXCEPT !.resolver = m.resolver]
               ELSE [reparsed.ws EXCEPT !.options = m.options],
               reparsed.events, <<>>, {}, positions, reparsed.dirs, FALSE)

\* process_messages for InternalMessage::SetDistro and SetOptions: the
\* resolver or the options are installed, then reparse_all
set_internal(ws, m, order) ==
    LET reparsed == reparse_all(IF m.type = "SetDistro"
                                THEN [ws EXCEPT !.resolver = m.resolver]
                                ELSE [ws EXCEPT !.options = m.options], order)
    IN Outcome(reparsed.ws, reparsed.events, <<>>, {}, positions, reparsed.dirs, FALSE)

\* Server::did_open
did_open(ws, params, cause) ==
    LET uri == normalize_uri(params.uri)
        language == by_language_id(params.language_id)
        opened == Workspace_open(ws, uri, params.text, language)
        shown == [opened.ws EXCEPT !.viewport = @ \cup {uri}]
    IN Outcome(shown, opened.events,
               IF shown.options.chktex_on_open_and_save
               THEN <<run_chktex(shown, uri, cause)>> ELSE <<>>,
               {}, positions, {}, FALSE)

\* a did_change that opens an empty document when the file cannot be read
did_change_blank(ws, params, read, cause) ==
    LET uri == normalize_uri(params.uri)
    IN IF Workspace_has(ws, uri) \/ ~to_file_path_ok(uri)
       THEN Outcome(ws, <<>>, <<>>, {}, positions, {}, FALSE)
       ELSE LET loaded == Workspace_load(ws, uri, IF read = IoError THEN FileRead(<<>>)
                                                  ELSE read)
            IN Outcome(loaded.ws, loaded.events, <<>>, {}, positions, {}, read = IoError)

\* a did_change that puts a document it loads into the viewport and applies
\* the content changes to it
did_change_shown(ws, params, read, cause) ==
    LET uri == normalize_uri(params.uri)
    IN IF Workspace_has(ws, uri) \/ ~to_file_path_ok(uri) \/ read = IoError
       THEN Outcome(ws, <<>>, <<>>, {}, positions, {}, FALSE)
       ELSE LET text == apply_document_edit(read.text, params.content_changes)
                opened == Workspace_open(ws, uri, text, by_path(uri))
            IN Outcome([opened.ws EXCEPT !.viewport = @ \cup {uri}], opened.events,
                       <<>>, {}, positions, {}, FALSE)

\* Server::did_change; read is what the file system gives if the document
\* has to be loaded
did_change(ws, params, read, cause) ==
    LET uri == normalize_uri(params.uri)
    IN IF Workspace_has(ws, uri)
       THEN LET old_document == ws.docs[uri]
                text == apply_document_edit(old_document.text, params.content_changes)
                opened == Workspace_open(ws, uri, text, old_document.language)
                shown == [opened.ws EXCEPT !.viewport = @ \cup {uri}]
                line == FirstChangedLine(old_document.text, text)
            IN Outcome(shown, opened.events,
                       IF shown.options.chktex_on_edit
                       THEN <<run_chktex(shown, uri, cause)>> ELSE <<>>,
                       {}, [positions EXCEPT ![uri] = Position(line, 0)], {}, FALSE)
       ELSE IF to_file_path_ok(uri)
       THEN LET loaded == Workspace_load(ws, uri, read)
            IN Outcome(loaded.ws, loaded.events, <<>>, {}, positions, {}, ~loaded.ok)
       ELSE Outcome(ws, <<>>, <<>>, {}, positions, {}, FALSE)

\* a did_save that builds every saved document of the workspace, whatever
\* the options say
did_save_always(ws, params, cause) ==
    LET uri == normalize_uri(params.uri)
        build == IF Workspace_has(ws, uri)
                 THEN <<Job("build_on_save", ws, 0, "", uri, NoParams,
                            FeatureRequest(ws, uri, NoParams), cause)>>
                 ELSE <<>>
        lint == IF Workspace_has(ws, uri) /\ ws.options.chktex_on_open_and_save
                THEN <<run_chktex(ws, uri, cause)>> ELSE <<>>
    IN Outcome(ws, <<>>, build \o lint, {}, positions, {}, FALSE)

\* Server::did_save
did_save(ws, params, cause) ==
    LET uri == normalize_uri(params.uri)
        build == IF Workspace_has(ws, uri) /\ ws.options.build_on_save
                 THEN <<Job("build_on_save", ws, 0, "", uri, NoParams,
                            FeatureRequest(ws, uri, NoParams), cause)>>
                 ELSE <<>>
        lint == IF Workspace_has(ws, uri) /\ ws.options.chktex_on_open_and_save
                THEN <<run_chktex(ws, uri, cause)>> ELSE <<>>
    IN Outcome(ws, <<>>, build \o lint, {}, positions, {}, FALSE)

\* a did_close that drops the document as well
did_close_remove(ws, params) ==
    Outcome(Workspace_remove(Workspace_close(ws, normalize_uri(params.uri)),
                             normalize_uri(params.uri)),
            <<>>, <<>>, {}, positions, {}, FALSE)

\* Server::did_close
did_close(ws, params) ==
    Outcome(Workspace_close(ws, normalize_uri(params.uri)), <<>>, <<>>, {},
            positions, {}, FALSE)

\* a did_change_configuration in which settings that do not parse leave
\* the options and the documents alone
did_change_configuration_keep(ws, params, order, cause) ==
    IF ws.caps.pull
    THEN Outcome(ws, <<>>, <<Job("pull_config", ws, 0, "", "", NoParams, NoRequest, cause)>>,
                 {}, positions, {}, FALSE)
    ELSE IF ~from_value(params.settings).ok
    THEN Outcome(ws, <<>>, <<>>, {Sent(ShowMessageWarning, cause)}, positions, {}, FALSE)
    ELSE LET parsed == parse_options(params.settings)
             reparsed == reparse_all([ws EXCEPT !.options = parsed.options], order)
         IN Outcome(reparsed.ws, reparsed.events, <<>>, {}, positions, reparsed.dirs, FALSE)

\* Server::did_change_configuration
did_change_configuration(ws, params, order, cause) ==
    IF ws.caps.pull
    THEN Outcome(ws, <<>>, <<Job("pull_config", ws, 0, "", "", NoParams, NoRequest, cause)>>,
                 {}, positions, {}, FALSE)
    ELSE LET parsed == parse_options(params.settings)
             reparsed == reparse_all([ws EXCEPT !.options = parsed.options], order)
         IN Outcome(reparsed.ws, reparsed.events, <<>>,
                    {Sent(m, cause) : m \in parsed.sent}, positions, reparsed.dirs, FALSE)

\* the requests that go through handle_feature_request
CursorMethods == {"textDocument/completion", "textDocument/hover"}
FeatureMethods ==
    {"textDocument/documentLink", "textDocument/foldingRange",
     "textDocument/references", "textDocument/hover",
     "textDocument/documentSymbol", "textDocument/definition",
     "textDocument/prepareRename", "textDocument/rename",
     "textDocument/documentHighlight", "textDocument/formatting",
     "textDocument/inlayHint", "textDocument/completion",
     "textDocument/build", "textDocument/forwardSearch"}

\* a handler that writes the position table for documents of the workspace
\* only
feature_handler_known(ws, id, method, params) ==
    LET uri == normalize_uri(params.uri)
    IN Outcome(ws, <<>>,
               <<Job("feature", ws, id, method, uri, params, NoRequest, id)>>, {},
               IF method \in CursorMethods /\ Workspace_has(ws, uri)
               THEN [positions EXCEPT ![uri] = params.position] ELSE positions,
               {}, FALSE)

\* Server::handle_feature_request behind the request handlers: the cursor
\* requests first write the position table; the job is spawned with the fork
feature_handler(ws, id, method, params) ==
    LET uri == normalize_uri(params.uri)
    IN Outcome(ws, <<>>,
               <<Job("feature", ws, id, method, uri, params, NoRequest, id)>>, {},
               IF method \in CursorMethods
               THEN [positions EXCEPT ![uri] = params.position] ELSE positions,
               {}, FALSE)

(***************************************************************************)
(* Messages.                                                               *)
(***************************************************************************)
\* history: io is filled in when the message is handled, with the URIs for
\* which an I/O operation of the handler failed
Notification(method, params) ==
    [type |-> "notification", method |-> method, params |-> params, seq |-> 0, io |-> {}]
Request(method, params) ==
    [type |-> "request", method |-> method, params |-> params, seq |-> 0, io |-> {}]
Response(id, result) ==
    [type |-> "response", method |-> "", id |-> id, result |-> result, seq |-> 0,
     io |-> {}]

\* InternalMessage
SetDistro(resolver) ==
    [type |-> "SetDistro", resolver |-> resolver, cause |-> 0, io |-> {}]
SetOptions(options, cause) ==
    [type |-> "SetOptions", options |-> options, cause |-> cause, io |-> {}]
\* history: reads is filled in when the event is handled, with what the file
\* system gives for each path
FileEvent(kind, paths) ==
    [type |-> "FileEvent", kind |-> kind, paths |-> paths, cause |-> 0, io |-> {},
     reads |-> <<>>]

\* responses of the server
ResponseOk(id, result) == [type |-> "response", id |-> id, ok |-> TRUE, result |-> result]
ResponseErr(id, code, message) ==
    [type |-> "response", id |-> id, ok |-> FALSE,
     result |-> [code |-> code, message |-> message]]

(***************************************************************************)
(* The state after Server::new and Server::initialize.                     *)
(***************************************************************************)
CLIENTCAPS ==
    {[pull |-> FALSE, push |-> FALSE], [pull |-> TRUE, push |-> FALSE],
     [pull |-> TRUE, push |-> TRUE]}

\* history: no didOpen or didChange has set the text
NoText == <<"none">>
NoWorkspace == [none |-> TRUE]
NoJobs == [j \in {} |-> NoParams]

\* Server::initialize: the jobs it spawns
InitialJobs(ws, skip_distro) ==
    (IF skip_distro THEN <<>>
     ELSE <<Job("distro", ws, 0, "", "", NoParams, NoRequest, 0)>>)
    \o <<Job("config", ws, 0, "", "", NoParams, NoRequest, 0)>>

InitWith(capsSet, skips) ==
    \E caps \in capsSet, skip_distro \in skips :
        LET ws == NewWorkspace(caps)
            jobs == InitialJobs(ws, skip_distro)
        IN /\ inbound = <<>>
           /\ internal = <<>>
           /\ workspace = ws
           /\ watched = {}
           /\ pool = [j \in 1 .. Len(jobs) |-> jobs[j]]
           /\ nextJob = Len(jobs) + 1
           /\ outbound = {}
           /\ loop = "running"
           /\ positions = [u \in URIS |-> NoPosition]
           /\ locks = {}
           /\ compiled = <<>>
           /\ events = <<>>
           /\ pending = NoWorkspace
           /\ diagnostics = [u \in URIS |-> [syntax |-> NoText, chktex |-> NoText]]
           /\ nsent = 0
           /\ nfile = 0
           /\ effects = <<>>
           /\ handled = <<>>
           /\ lastMutation = [u \in URIS |-> NoText]
           /\ thread = NoWorkspace
           /\ window = <<>>
           /\ delivered = <<>>

Init == InitWith({NoCaps}, BOOLEAN)

(***************************************************************************)
(* The client and the file watcher.                                        *)
(***************************************************************************)
\* the client writes a message on the protocol channel
ClientSend(m, max) ==
    /\ nsent < max
    /\ nsent' = nsent + 1
    /\ inbound' = Append(inbound, [m EXCEPT !.seq = nsent + 1])
    /\ UNCHANGED <<internal, workspace, watched, pool, nextJob, outbound, loop,
                   positions, locks, compiled, events, pending, diagnostics, nfile,
                   effects, handled, lastMutation,
                   thread, window, delivered>>

\* the file watcher reports an event on the internal channel
MaxFileEvents == 1
WatcherEvent(kind, paths) ==
    /\ nfile < MaxFileEvents
    /\ nfile' = nfile + 1
    /\ internal' = Append(internal, FileEvent(kind, paths))
    /\ UNCHANGED <<inbound, workspace, watched, pool, nextJob, outbound, loop,
                   positions, locks, compiled, events, pending, diagnostics, nsent,
                   effects, handled, lastMutation,
                   thread, window, delivered>>

(***************************************************************************)
(* The session loop: Server::process_messages.  Each action is one         *)
(* iteration of the loop: it takes one message and handles it.             *)
(***************************************************************************)
\* NotificationDispatcher::on and RequestDispatcher::on: an error of the
\* handler is logged and the loop goes on
AfterHandler(err) == "running"

AddJobs(jobs) ==
    [j \in DOMAIN pool \cup (nextJob .. nextJob + Len(jobs) - 1) |->
        IF j \in DOMAIN pool THEN pool[j] ELSE jobs[j - nextJob + 1]]

NoDocument == [text |-> <<"none">>, language |-> "none"]
DocOf(ws, u) == IF Workspace_has(ws, u) THEN ws.docs[u] ELSE NoDocument

\* history: the last mutation of each URI after a handler; uri and text name
\* the didOpen or didChange that was handled, if one was
LastAfter(o, uri, text) ==
    [u \in URIS |->
        IF u = uri THEN text
        ELSE IF DocOf(o.ws, u) # DocOf(workspace, u) THEN NoText
        ELSE lastMutation[u]]

\* the loop's state after a handler with outcome o
Handle(o) ==
    /\ nextJob - 1 + Len(o.jobs) <= MaxJobs
    /\ workspace' = o.ws
    /\ events' = events \o o.events
    /\ pool' = AddJobs(o.jobs)
    /\ nextJob' = nextJob + Len(o.jobs)
    /\ outbound' = outbound \cup o.sent
    /\ positions' = o.positions
    /\ watched' = watched \cup o.dirs
    /\ loop' = AfterHandler(o.err)

\* the message the select takes from the protocol channel
NextInboundLast == inbound[Len(inbound)]
NextInbound == Head(inbound)

RestInbound ==
    LET k == CHOOSE i \in 1 .. Len(inbound) : inbound[i] = NextInbound
    IN SubSeq(inbound, 1, k - 1) \o SubSeq(inbound, k + 1, Len(inbound))

Taking(type, methods) ==
    /\ loop = "running"
    /\ inbound # <<>>
    /\ NextInbound.type = type
    /\ NextInbound.method \in methods

\* a notification handled by the loop itself
Notified(m, o, uri, text, effective) ==
    /\ Handle(o)
    /\ inbound' = RestInbound
    /\ handled' = Append(handled, [m EXCEPT !.io = IF o.err THEN {normalize_uri(m.params.uri)}
                                                  ELSE {}])
    /\ effects' = IF effective THEN Append(effects, m.seq) ELSE effects
    /\ lastMutation' = LastAfter(o, uri, text)
    /\ UNCHANGED <<internal, locks, compiled, pending, diagnostics, nsent, nfile,
                   thread, window, delivered>>

DidOpen ==
    /\ Taking("notification", {"textDocument/didOpen"})
    /\ LET m == NextInbound
       IN Notified(m, did_open(workspace, m.params, m.seq),
                   normalize_uri(m.params.uri), m.params.text, TRUE)

\* Server::did_open when Workspace::open fails: the handler returns the
\* error before it touches the viewport
DidOpenFailed ==
    /\ Taking("notification", {"textDocument/didOpen"})
    /\ Notified(NextInbound, Outcome(workspace, <<>>, <<>>, {}, positions, {}, TRUE),
                "", <<>>, FALSE)

\* what the file system may give when a file is read
READS == {IoError, FileRead(<<"a">>)}

DidChange ==
    /\ Taking("notification", {"textDocument/didChange"})
    /\ LET m == NextInbound
           uri == normalize_uri(m.params.uri)
       IN \E read \in IF Workspace_has(workspace, uri) \/ ~to_file_path_ok(uri)
                      THEN {IoError} ELSE READS :
              LET o == did_change(workspace, m.params, read, m.seq)
              IN IF Workspace_has(workspace, uri)
                 THEN Notified(m, o, uri, o.ws.docs[uri].text, TRUE)
                 ELSE Notified(m, o, "", <<>>, TRUE)

DidSave ==
    /\ Taking("notification", {"textDocument/didSave"})
    /\ LET m == NextInbound
       IN Notified(m, did_save(workspace, m.params, m.seq), "", <<>>, TRUE)

DidClose ==
    /\ Taking("notification", {"textDocument/didClose"})
    /\ LET m == NextInbound
       IN Notified(m, did_close(workspace, m.params), "", <<>>, TRUE)

DidChangeConfiguration ==
    /\ Taking("notification", {"workspace/didChangeConfiguration"})
    /\ LET m == NextInbound
       IN \E order \in Orders(DOMAIN workspace.docs) :
              Notified(m, did_change_configuration(workspace, m.params, order, m.seq),
                       "", <<>>, ~workspace.caps.pull)

\* the notifications and requests process_messages has a handler for
NotificationMethods ==
    {"$/cancelRequest", "workspace/didChangeConfiguration",
     "workspace/didChangeWatchedFiles", "textDocument/didOpen",
     "textDocument/didChange", "textDocument/didSave", "textDocument/didClose"}
RequestMethods ==
    FeatureMethods \cup
        {"workspace/symbol", "completionItem/resolve", "workspace/executeCommand",
         "textDocument/semanticTokens/range", "inlayHint/resolve"}

\* Server::cancel, Server::did_change_watched_files and the default of the
\* notification dispatcher: the notification is taken and nothing is done
NotificationDropped ==
    /\ Taking("notification",
              {NextInbound.method} \ (NotificationMethods \ {"$/cancelRequest",
                                           "workspace/didChangeWatchedFiles"}))
    /\ Notified(NextInbound, Outcome(workspace, <<>>, <<>>, {}, positions, {}, FALSE),
                "", <<>>, FALSE)

\* RequestDispatcher::default: the response for a request no handler took
RequestDispatcher_default(m) ==
    ResponseErr(m.seq, "MethodNotFound", "Unknown method")

\* a loop that drops the response of the dispatcher
unhandled_request_dropped(ws, m) == Outcome(ws, <<>>, <<>>, {}, positions, {}, FALSE)

\* process_messages after the chain of request handlers: the response the
\* dispatcher is left with is sent
unhandled_request(ws, m) ==
    Outcome(ws, <<>>, <<>>, {Sent(RequestDispatcher_default(m), m.seq)}, positions,
            {}, FALSE)

RequestUnhandled ==
    /\ Taking("request", {NextInbound.method} \ (RequestMethods \cup {"shutdown"}))
    /\ Notified(NextInbound, unhandled_request(workspace, NextInbound), "", <<>>, FALSE)

\* Server::semantic_tokens_range: Ok(()) and nothing else
semantic_tokens_range(ws, id, params) ==
    Outcome(ws, <<>>, <<>>, {}, positions, {}, FALSE)

SemanticTokensRange ==
    /\ Taking("request", {"textDocument/semanticTokens/range"})
    /\ LET m == NextInbound
       IN Notified(m, semantic_tokens_range(workspace, m.seq, m.params), "", <<>>, FALSE)

\* Server::inlay_hint_resolve: the hint is sent back from the loop itself
inlay_hint_resolve(ws, id, hint) ==
    Outcome(ws, <<>>, <<>>, {Sent(ResponseOk(id, hint), id)}, positions, {}, FALSE)

InlayHintResolve ==
    /\ Taking("request", {"inlayHint/resolve"})
    /\ LET m == NextInbound
       IN Notified(m, inlay_hint_resolve(workspace, m.seq, m.params), "", <<>>, FALSE)

\* Server::workspace_symbols, completion_resolve and execute_command: a job
\* that is given the fork and answers the request
SpawnedMethods ==
    {"workspace/symbol", "completionItem/resolve", "workspace/executeCommand"}

spawned_handler(ws, id, method, params) ==
    Outcome(ws, <<>>, <<Job("spawned", ws, id, method, "", params, NoRequest, id)>>,
            {}, positions, {}, FALSE)

SpawnedRequested ==
    /\ Taking("request", SpawnedMethods)
    /\ LET m == NextInbound
       IN Notified(m, spawned_handler(workspace, m.seq, m.method, m.params),
                   "", <<>>, FALSE)

\* a feature request: the handler runs on the pool
FeatureRequested ==
    /\ Taking("request", FeatureMethods)
    /\ LET m == NextInbound
       IN Notified(m, feature_handler(workspace, m.seq, m.method, m.params),
                   "", <<>>, FALSE)

\* a loop that answers the shutdown request and goes on
ShutdownContinue ==
    /\ Taking("request", {"shutdown"})
    /\ loop' = "running"
    /\ outbound' = outbound \cup {Sent(ResponseOk(NextInbound.seq, "null"), NextInbound.seq)}
    /\ inbound' = RestInbound
    /\ handled' = Append(handled, NextInbound)
    /\ UNCHANGED <<internal, workspace, watched, pool, nextJob, positions, locks,
                   compiled, events, pending, diagnostics, nsent, nfile, effects,
                   lastMutation,
                   thread, window, delivered>>

\* Connection::handle_shutdown, first half: the shutdown request is answered
Shutdown ==
    /\ Taking("request", {"shutdown"})
    /\ loop' = "shutdown"
    /\ outbound' = outbound \cup {Sent(ResponseOk(NextInbound.seq, "null"), NextInbound.seq)}
    /\ inbound' = RestInbound
    /\ handled' = Append(handled, NextInbound)
    /\ UNCHANGED <<internal, workspace, watched, pool, nextJob, positions, locks,
                   compiled, events, pending, diagnostics, nsent, nfile, effects,
                   lastMutation,
                   thread, window, delivered>>

\* Connection::handle_shutdown, second half: the next message must be exit,
\* and it must come in time; process_messages returns either way
ShutdownWait ==
    /\ loop = "shutdown"
    /\ \/ /\ inbound # <<>>
          /\ loop' = IF Head(inbound).type = "notification" /\ Head(inbound).method = "exit"
                     THEN "joining" ELSE "failed"
          /\ inbound' = Tail(inbound)
       \/ /\ inbound = <<>>
          /\ loop' = "failed"
          /\ inbound' = inbound
    /\ UNCHANGED <<internal, workspace, watched, pool, nextJob, outbound, positions,
                   locks, compiled, events, pending, diagnostics, nsent, nfile,
                   effects, handled, lastMutation,
                   thread, window, delivered>>

\* a run that returns without waiting for the pool
JoinEarly ==
    /\ loop = "joining"
    /\ loop' = "exited"
    /\ UNCHANGED <<inbound, internal, workspace, watched, pool, nextJob, outbound,
                   positions, locks, compiled, events, pending, diagnostics, nsent,
                   nfile, effects, handled, lastMutation,
                   thread, window, delivered>>

\* Server::run after the loop: pool.join, then Ok
Join ==
    /\ loop = "joining"
    /\ DOMAIN pool = {}
    /\ loop' = "exited"
    /\ UNCHANGED <<inbound, internal, workspace, watched, pool, nextJob, outbound,
                   positions, locks, compiled, events, pending, diagnostics, nsent,
                   nfile, effects, handled, lastMutation,
                   thread, window, delivered>>

\* Message::Response: LspClient::recv_response hands the result to the job
\* that waits for it
ResponseReceived ==
    /\ Taking("response", {""})
    /\ LET m == NextInbound
       IN /\ pool' = [j \in DOMAIN pool |->
                         IF j = m.id.job /\ pool[j].pc \in {"registering", "awaiting"}
                         THEN [pool[j] EXCEPT !.value = m.result,
                                              !.pc = IF @ = "registering" THEN "registered"
                                                     ELSE "responded"]
                         ELSE pool[j]]
          /\ inbound' = RestInbound
          /\ handled' = Append(handled, m)
    /\ UNCHANGED <<internal, workspace, watched, nextJob, outbound, loop, positions,
                   locks, compiled, events, pending, diagnostics, nsent, nfile,
                   effects, lastMutation,
                   thread, window, delivered>>

\* an internal message handled by the loop
Internally(m, o, effective) ==
    /\ Handle(o)
    /\ internal' = Tail(internal)
    /\ handled' = Append(handled, m)
    /\ effects' = IF effective THEN Append(effects, m.cause) ELSE effects
    /\ lastMutation' = LastAfter(o, "", <<>>)
    /\ UNCHANGED <<inbound, locks, compiled, pending, diagnostics, nsent, nfile,
                   thread, window, delivered>>

TakingInternal(type) ==
    /\ loop = "running"
    /\ internal # <<>>
    /\ Head(internal).type = type

\* InternalMessage::SetDistro
SetDistroReceived ==
    /\ TakingInternal("SetDistro")
    /\ LET m == Head(internal)
       IN \E order \in Orders(DOMAIN workspace.docs) :
              Internally(m, set_internal(workspace, m, order), FALSE)

\* InternalMessage::SetOptions
SetOptionsReceived ==
    /\ TakingInternal("SetOptions")
    /\ LET m == Head(internal)
       IN \E order \in Orders(DOMAIN workspace.docs) :
              Internally(m, set_internal(workspace, m, order), m.cause > 0)

\* the paths of a file event are reloaded one after another; an error of one
\* reload is dropped
\* a loop that loads every path, whether the workspace has its document
\* or not
RECURSIVE LoadAll(_, _, _)
LoadAll(ws, paths, reads) ==
    IF paths = <<>> THEN [ws |-> ws, events |-> <<>>]
    ELSE LET one == Workspace_load(ws, Head(paths), Head(reads))
             rest == LoadAll(one.ws, Tail(paths), Tail(reads))
         IN [ws |-> rest.ws, events |-> one.events \o rest.events]

RECURSIVE ReloadAll(_, _, _)
ReloadAll(ws, paths, reads) ==
    IF paths = <<>> THEN [ws |-> ws, events |-> <<>>]
    ELSE LET one == Workspace_reload(ws, Head(paths), Head(reads))
             rest == ReloadAll(one.ws, Tail(paths), Tail(reads))
         IN [ws |-> rest.ws, events |-> one.events \o rest.events]

\* a removal that stops after the first path
RemoveHead(ws, paths) ==
    IF paths = <<>> THEN ws ELSE Workspace_remove(ws, Head(paths))

RECURSIVE RemoveAll(_, _)
RemoveAll(ws, paths) ==
    IF paths = <<>> THEN ws
    ELSE RemoveAll(Workspace_remove(ws, Head(paths)), Tail(paths))

\* InternalMessage::FileEvent
file_event(ws, ev, reads) ==
    IF ev.kind \in {"create", "modify"}
    THEN LET reloaded == ReloadAll(ws, ev.paths, reads)
         IN Outcome(reloaded.ws, reloaded.events, <<>>, {}, positions, {}, FALSE)
    ELSE IF ev.kind = "remove"
    THEN Outcome(RemoveAll(ws, ev.paths), <<>>, <<>>, {}, positions, {}, FALSE)
    ELSE Outcome(ws, <<>>, <<>>, {}, positions, {}, FALSE)

FileEventReceived ==
    /\ TakingInternal("FileEvent")
    /\ LET m == Head(internal)
       IN \E reads \in [1 .. Len(m.paths) -> READS] :
              /\ \A k \in 1 .. Len(m.paths) :
                     m.kind \notin {"create", "modify"} => reads[k] = IoError
              /\ Internally([m EXCEPT !.io = {m.paths[k] : k \in {i \in 1 .. Len(m.paths) :
                                                     reads[i] = IoError
                                                     /\ m.kind \in {"create", "modify"}
                                                     /\ Workspace_has(workspace, m.paths[i])}},
                                       !.reads = reads],
                            file_event(workspace, m, reads), FALSE)

(***************************************************************************)
(* The worker pool.  Each action is one step of one job; a job works on    *)
(* the fork it was given when it was spawned.                              *)
(***************************************************************************)
Without(j) == [k \in DOMAIN pool \ {j} |-> pool[k]]

\* the reply to a feature request, filed with the history of its job: its
\* method, and whether its target was a document of the workspace when it
\* was dispatched
Reply(msg, job) ==
    [msg |-> msg, cause |-> job.id, known |-> Workspace_has(job.atDispatch, job.uri),
     method |-> job.method]

\* a job that writes its snapshot back over the session's workspace
JobWorkspaceWritten(job) == job.fork.workspace

\* Server::spawn: the closure is given the fork and nothing else of the
\* server, so the session's workspace is as it was after a step of the job
JobWorkspace(job) == workspace

\* a job that takes its request from the workspace of the session as it is
\* when the job runs
feature_job_live(job) ==
    LET request == FeatureRequest(workspace, job.uri, job.params)
    IN IF DOMAIN request.workspace.docs = {}
       THEN [unknown |-> TRUE, request |-> request,
             reply |-> ResponseErr(job.id, "InvalidRequest", "unknown document")]
       ELSE [unknown |-> FALSE, request |-> request, reply |-> NoParams]

\* a job that runs the handler whatever the slice holds
feature_job_unchecked(job) ==
    LET request == FeatureRequest(job.fork.workspace, job.uri, job.params)
    IN [unknown |-> FALSE, request |-> request, reply |-> NoParams]

\* a job that sends the error for an empty slice and runs the handler all
\* the same
feature_job_both(job) ==
    LET request == FeatureRequest(job.fork.workspace, job.uri, job.params)
    IN IF DOMAIN request.workspace.docs = {}
       THEN [unknown |-> FALSE, request |-> request,
             reply |-> ResponseErr(job.id, "InvalidRequest", "unknown document")]
       ELSE [unknown |-> FALSE, request |-> request, reply |-> NoParams]

\* the job of handle_feature_request, up to the call of the handler
feature_job(job) ==
    LET request == FeatureRequest(job.fork.workspace, job.uri, job.params)
    IN IF DOMAIN request.workspace.docs = {}
       THEN [unknown |-> TRUE, request |-> request,
             reply |-> ResponseErr(job.id, "InvalidRequest", "unknown document")]
       ELSE [unknown |-> FALSE, request |-> request, reply |-> NoParams]

FeatureStart(j) ==
    /\ j \in DOMAIN pool
    /\ pool[j].kind = "feature"
    /\ pool[j].pc = "queued"
    /\ LET started == feature_job(pool[j])
       IN /\ outbound' = IF started.reply # NoParams
                          THEN outbound \cup {Reply(started.reply, pool[j])}
                          ELSE outbound
          /\ pool' = IF started.unknown THEN Without(j)
                     ELSE [pool EXCEPT ![j].pc = "handling",
                                       ![j].request = started.request]
    /\ workspace' = JobWorkspace(pool[j])
    /\ UNCHANGED <<inbound, internal, watched, nextJob, loop, positions, locks,
                   compiled, events, pending, diagnostics, nsent, nfile, effects,
                   handled, lastMutation,
                   thread, window, delivered>>

\* the job of workspace_symbols, completion_resolve and execute_command: one
\* response; execute_command answers with an error when the command fails
SpawnedFinish(j, ok) ==
    /\ j \in DOMAIN pool
    /\ pool[j].kind = "spawned"
    /\ ok \/ pool[j].method = "workspace/executeCommand"
    /\ outbound' = outbound \cup
           {Reply(IF ok THEN ResponseOk(pool[j].id, [seen |-> pool[j].fork.workspace])
                  ELSE ResponseErr(pool[j].id, "InternalError", "command failed"),
                  pool[j])}
    /\ pool' = Without(j)
    /\ workspace' = JobWorkspace(pool[j])
    /\ UNCHANGED <<inbound, internal, watched, nextJob, loop, positions, locks,
                   compiled, events, pending, diagnostics, nsent, nfile, effects,
                   handled, lastMutation, thread, window, delivered>>

\* ForwardSearch::execute: no result when the invocation fails
EXECUTED == {"None", "SUCCESS"}

\* a forward search that asks for the executable alone
forward_search_handler_executable(request, executed) ==
    IF request.workspace.options.forward_search.executable
    THEN [status |-> IF executed = "None" THEN "ERROR" ELSE executed]
    ELSE [status |-> "UNCONFIGURED"]

\* the closure of Server::forward_search, around the call of execute
forward_search_handler(request, executed) ==
    IF request.workspace.options.forward_search.executable
       /\ request.workspace.options.forward_search.args
    THEN [status |-> IF executed = "None" THEN "ERROR" ELSE executed]
    ELSE [status |-> "UNCONFIGURED"]

\* the tool is to be invoked for the request
Invokes(request) == forward_search_handler(request, "SUCCESS").status # "UNCONFIGURED"

\* a build closure that reports every build that did not succeed as FAILURE
build_closure_downgrade(result) ==
    [status |-> IF result.status = "SUCCESS" THEN "SUCCESS" ELSE "FAILURE"]

\* the closure of Server::build: an Err of BuildEngine::build becomes FAILURE,
\* a result is passed on as it is
build_closure(result) ==
    [status |-> IF result.status = "Err" THEN "FAILURE" ELSE result.status]

\* a feature handler reads the request it was given
feature_result(job) ==
    IF job.method = "textDocument/forwardSearch"
    THEN forward_search_handler(job.request,
                                IF job.pc = "searched" THEN job.value.executed ELSE "None")
    ELSE IF job.method = "textDocument/build" THEN build_closure(job.value)
    ELSE [seen |-> job.request.workspace]

\* the closure of Server::forward_search, the call of execute: the tool is
\* invoked
ForwardSearchExecute(j, executed) ==
    /\ j \in DOMAIN pool
    /\ pool[j].kind = "feature"
    /\ pool[j].method = "textDocument/forwardSearch"
    /\ pool[j].pc = "handling"
    /\ Invokes(pool[j].request)
    /\ pool' = [pool EXCEPT ![j].pc = "searched", ![j].value = [executed |-> executed]]
    /\ workspace' = JobWorkspace(pool[j])
    /\ UNCHANGED <<inbound, internal, watched, nextJob, outbound, loop, positions,
                   locks, compiled, events, pending, diagnostics, nsent, nfile,
                   effects, handled, lastMutation, thread, window, delivered>>

\* the job of handle_feature_request, from the return of the handler
FeatureFinish(j) ==
    /\ j \in DOMAIN pool
    /\ pool[j].kind = "feature"
    /\ pool[j].pc # "queued"
    /\ pool[j].pc = IF pool[j].method = "textDocument/build" THEN "built"
                    ELSE IF pool[j].method = "textDocument/forwardSearch"
                            /\ Invokes(pool[j].request)
                    THEN "searched" ELSE "handling"
    /\ outbound' = outbound \cup {Reply(ResponseOk(pool[j].id, feature_result(pool[j])), pool[j])}
    /\ pool' = Without(j)
    /\ workspace' = JobWorkspace(pool[j])
    /\ UNCHANGED <<inbound, internal, watched, nextJob, loop, positions, locks,
                   compiled, events, pending, diagnostics, nsent, nfile, effects,
                   handled, lastMutation,
                   thread, window, delivered>>

\* the requests the server sends to the client, and the answers
ServerRequest(method, j) ==
    [type |-> "request", method |-> method,
     id |-> [job |-> j, method |-> method, cause |-> pool[j].cause]]
PULLRESULTS == {[ok |-> FALSE]} \cup {[ok |-> TRUE, value |-> v] : v \in SETTINGS}

\* ServerFork::pull_config, up to the request
PullStart(j) ==
    IF pool[j].fork.workspace.caps.pull
    THEN /\ pool' = [pool EXCEPT ![j].pc = "awaiting"]
         /\ outbound' = outbound \cup {Sent(ServerRequest("workspace/configuration", j), j)}
    ELSE /\ pool' = Without(j)
         /\ outbound' = outbound

\* the job of Server::initialize (register_config_capability, then
\* pull_config) and the job of did_change_configuration (pull_config)
ConfigStart(j) ==
    /\ j \in DOMAIN pool
    /\ \/ pool[j].kind \in {"config", "pull_config"} /\ pool[j].pc = "queued"
       \/ pool[j].kind = "config" /\ pool[j].pc = "registered"
    /\ IF pool[j].kind = "config" /\ pool[j].pc = "queued"
          /\ pool[j].fork.workspace.caps.push
       THEN /\ pool' = [pool EXCEPT ![j].pc = "registering"]
            /\ outbound' = outbound \cup
                   {Sent(ServerRequest("client/registerCapability", j), j)}
       ELSE PullStart(j)
    /\ workspace' = JobWorkspace(pool[j])
    /\ UNCHANGED <<inbound, internal, watched, nextJob, loop, positions, locks,
                   compiled, events, pending, diagnostics, nsent, nfile, effects,
                   handled, lastMutation,
                   thread, window, delivered>>

\* ServerFork::pull_config, from the answer of the client
pull_config_answered(job) ==
    IF job.value.ok
    THEN LET parsed == parse_options(job.value.value)
         IN [sent |-> parsed.sent, internal |-> <<SetOptions(parsed.options, job.cause)>>]
    ELSE [sent |-> {}, internal |-> <<>>]

ConfigFinish(j) ==
    /\ j \in DOMAIN pool
    /\ pool[j].kind \in {"config", "pull_config"}
    /\ pool[j].pc = "responded"
    /\ LET done == pull_config_answered(pool[j])
       IN /\ outbound' = outbound \cup {Sent(m, pool[j].cause) : m \in done.sent}
          /\ internal' = internal \o done.internal
    /\ pool' = Without(j)
    /\ workspace' = JobWorkspace(pool[j])
    /\ UNCHANGED <<inbound, watched, nextJob, loop, positions, locks, compiled,
                   events, pending, diagnostics, nsent, nfile, effects, handled,
                   lastMutation,
                   thread, window, delivered>>

\* the client answers a request of the server
Answered(id) ==
    \/ \E k \in 1 .. Len(inbound) : inbound[k].type = "response" /\ inbound[k].id = id
    \/ \E k \in 1 .. Len(handled) : handled[k].type = "response" /\ handled[k].id = id

ClientAnswer(result) ==
    /\ \E s \in outbound :
           /\ s.msg.type = "request"
           /\ ~Answered(s.msg.id)
           /\ s.msg.method = "client/registerCapability" => result = [ok |-> TRUE, value |-> JsonNull]
           /\ inbound' = Append(inbound, Response(s.msg.id, result))
    /\ UNCHANGED <<internal, workspace, watched, pool, nextJob, outbound, loop,
                   positions, locks, compiled, events, pending, diagnostics, nsent,
                   nfile, effects, handled, lastMutation,
                   thread, window, delivered>>

\* the job of Server::initialize that detects the distribution
DistroJob(j) ==
    /\ j \in DOMAIN pool
    /\ pool[j].kind = "distro"
    /\ internal' = Append(internal, SetDistro("texlive"))
    /\ pool' = Without(j)
    /\ workspace' = JobWorkspace(pool[j])
    /\ UNCHANGED <<inbound, watched, nextJob, outbound, loop, positions, locks,
                   compiled, events, pending, diagnostics, nsent, nfile, effects,
                   handled, lastMutation,
                   thread, window, delivered>>

(***************************************************************************)
(* The diagnostic pipeline: the manager, the event thread, the debouncer.  *)
(***************************************************************************)
\* DiagnosticManager::push_syntax / push_chktex: the buffer of the URI is
\* overwritten with what the document of that workspace gives
push(buffers, source, ws, uri) ==
    IF Workspace_has(ws, uri)
    THEN [buffers EXCEPT ![uri][source] = ws.docs[uri].text]
    ELSE buffers

\* Debouncer::send: a submission within the delay window takes the place
\* of the pending workspace and the timer starts again
Debouncer_send(waiting, ws) == ws

\* the job of Server::run_chktex, first half: push_chktex for the workspace
\* of the fork
ChktexPush(j) ==
    /\ j \in DOMAIN pool
    /\ pool[j].kind = "chktex"
    /\ pool[j].pc = "queued"
    /\ diagnostics' = push(diagnostics, "chktex", pool[j].fork.workspace, pool[j].uri)
    /\ pool' = [pool EXCEPT ![j].pc = "pushed"]
    /\ workspace' = JobWorkspace(pool[j])
    /\ UNCHANGED <<inbound, internal, watched, nextJob, outbound, loop, positions,
                   locks, compiled, events, pending, nsent, nfile, effects, handled,
                   lastMutation, thread, window, delivered>>

\* the job of Server::run_chktex, second half: the workspace of the fork is
\* submitted to the debouncer
ChktexSend(j) ==
    /\ j \in DOMAIN pool
    /\ pool[j].kind = "chktex"
    /\ pool[j].pc = "pushed"
    /\ pending' = Debouncer_send(pending, pool[j].fork.workspace)
    /\ window' = Append(window, [workspace |-> pool[j].fork.workspace, by |-> "chktex"])
    /\ pool' = Without(j)
    /\ workspace' = JobWorkspace(pool[j])
    /\ UNCHANGED <<inbound, internal, watched, nextJob, outbound, loop, positions,
                   locks, compiled, events, diagnostics, nsent, nfile, effects,
                   handled, lastMutation, thread, delivered>>

\* a diagnostic thread that takes one event and leaves the manager alone
DiagnosticPushSkip ==
    /\ thread = NoWorkspace
    /\ events # <<>>
    /\ diagnostics' = diagnostics
    /\ thread' = Head(events)
    /\ events' = Tail(events)
    /\ UNCHANGED <<inbound, internal, workspace, watched, pool, nextJob, outbound,
                   loop, positions, locks, compiled, pending, nsent, nfile, effects,
                   handled, lastMutation, window, delivered>>

\* the thread of register_diagnostics_handler, first half: it takes one
\* event and calls push_syntax
DiagnosticPush ==
    /\ thread = NoWorkspace
    /\ events # <<>>
    /\ diagnostics' = push(diagnostics, "syntax", Head(events).workspace, Head(events).uri)
    /\ thread' = Head(events)
    /\ events' = Tail(events)
    /\ UNCHANGED <<inbound, internal, workspace, watched, pool, nextJob, outbound,
                   loop, positions, locks, compiled, pending, nsent, nfile, effects,
                   handled, lastMutation, window, delivered>>

\* the thread of register_diagnostics_handler, second half: the workspace of
\* the event is submitted to the debouncer
DiagnosticSend ==
    /\ thread # NoWorkspace
    /\ pending' = Debouncer_send(pending, thread.workspace)
    /\ window' = Append(window, [workspace |-> thread.workspace, by |-> "syntax"])
    /\ thread' = NoWorkspace
    /\ UNCHANGED <<inbound, internal, workspace, watched, pool, nextJob, outbound,
                   loop, positions, locks, compiled, events, diagnostics, nsent,
                   nfile, effects, handled, lastMutation, delivered>>

PublishDiagnostics(uri, diags) ==
    [type |-> "notification", method |-> "textDocument/publishDiagnostics",
     uri |-> uri, diagnostics |-> diags]

\* a publish_diagnostics that goes through the buffers of the manager
publish_diagnostics_all(buffers, ws) ==
    {Sent(PublishDiagnostics(u, buffers[u]), 0) : u \in DOMAIN buffers}

\* publish_diagnostics: one notification for every document that is no build
\* log, with what the manager holds for its URI when it is asked
publish_diagnostics(buffers, ws) ==
    {Sent(PublishDiagnostics(u, buffers[u]), 0) :
        u \in {x \in DOMAIN ws.docs : ws.docs[x].language # "log"}}

\* no thread is between a push to the manager and its submission
Submitted ==
    /\ thread = NoWorkspace
    /\ \A j \in DOMAIN pool : pool[j].pc # "pushed"

\* the thread of create_debouncer: the timer ran out and the pending
\* workspace is delivered, once; each delivery is filed with the submissions
\* it stands for and the notifications it sent
DebouncerFire ==
    /\ pending # NoWorkspace
    /\ outbound' = outbound \cup publish_diagnostics(diagnostics, pending)
    /\ pending' = NoWorkspace
    /\ delivered' = Append(delivered, [workspace |-> pending, burst |-> window,
                                       sent |-> publish_diagnostics(diagnostics, pending),
                                       settled |-> Submitted])
    /\ window' = <<>>
    /\ UNCHANGED <<inbound, internal, workspace, watched, pool, nextJob, loop,
                   positions, locks, compiled, events, diagnostics, nsent, nfile,
                   effects, handled, lastMutation, thread>>

(***************************************************************************)
(* The build engine: one lock for every root.                              *)
(***************************************************************************)
\* the root of a document in the slice of a request: a document that
\* includes it and is included by none, else the document itself
Parents(ws, uri) ==
    {x \in DOMAIN ws.docs : x # uri /\ uri \in Links(ws.docs[x])
                             /\ ws.docs[x].language # "log"}

Root(ws, uri) ==
    IF Parents(ws, uri) = {} THEN uri
    ELSE IF FileA \in Parents(ws, uri) THEN FileA
    ELSE CHOOSE x \in Parents(ws, uri) : TRUE

BuildPhase(job) ==
    \/ job.kind = "feature" /\ job.method = "textDocument/build" /\ job.pc = "handling"
    \/ job.kind = "build_on_save" /\ job.pc = "queued"

Held(engine, root) == {l \in locks : l.engine = engine /\ l.root = root}

\* the compiler runs of a root that have not exited
Executing(root) ==
    {k \in 1 .. Len(compiled) : compiled[k].status = "RUNNING" /\ compiled[k].root = root}

\* BuildEngine::build, up to the compiler: a root that is no local file
\* fails, a root that is being built is waited for, else the lock is taken
\* and the compiler is spawned; a compiler that cannot be spawned is
\* reported as ERROR.  Each compiler run is filed with the requests it
\* serves and the runs of its root that were executing when it was spawned
BuildEnter(j, spawned) ==
    /\ j \in DOMAIN pool
    /\ BuildPhase(pool[j])
    /\ LET job == pool[j]
           root == Root(job.request.workspace, job.request.uri)
           held == Held(job.fork.build_engine, root)
       IN IF ~to_file_path_ok(root)
          THEN /\ spawned
               /\ pool' = [pool EXCEPT ![j].pc = "built", ![j].value = [status |-> "FAILURE"]]
               /\ UNCHANGED <<locks, compiled>>
          ELSE IF held # {}
          THEN LET holder == (CHOOSE l \in held : TRUE).holder
               IN /\ spawned
                  /\ pool' = [pool EXCEPT ![j].pc = "waiting",
                                          ![j].value = [awaits |-> holder]]
                  /\ locks' = locks
                  /\ compiled' = [k \in 1 .. Len(compiled) |->
                                     IF compiled[k].job = holder
                                     THEN [compiled[k] EXCEPT !.served = @ \cup {job.id}]
                                     ELSE compiled[k]]
          ELSE IF ~spawned
          THEN /\ pool' = [pool EXCEPT ![j].pc = "built", ![j].value = [status |-> "ERROR"]]
               /\ UNCHANGED <<locks, compiled>>
          ELSE /\ pool' = [pool EXCEPT ![j].pc = "compiling"]
               /\ locks' = locks \cup
                     {[engine |-> job.fork.build_engine, root |-> root, holder |-> j]}
               /\ compiled' = Append(compiled, [root |-> root, job |-> j,
                                                status |-> "RUNNING",
                                                served |-> {job.id},
                                                during |-> Executing(root)])
    /\ workspace' = JobWorkspace(pool[j])
    /\ UNCHANGED <<inbound, internal, watched, nextJob, outbound, loop, positions,
                   events, pending, diagnostics, nsent, nfile, effects, handled,
                   lastMutation,
                   thread, window, delivered>>

\* BuildEngine::build, from the exit of the compiler: the lock is released;
\* the build returns a status or, when it fails on the way, an Err
BUILDSTATUS == {"SUCCESS", "FAILURE", "Err"}
BuildExit(j, status) ==
    /\ j \in DOMAIN pool
    /\ pool[j].pc = "compiling"
    /\ pool' = [pool EXCEPT ![j].pc = "built", ![j].value = [status |-> status]]
    /\ locks' = {l \in locks : l.holder # j}
    /\ compiled' = [k \in 1 .. Len(compiled) |->
                       IF compiled[k].job = j THEN [compiled[k] EXCEPT !.status = status]
                       ELSE compiled[k]]
    /\ workspace' = JobWorkspace(pool[j])
    /\ UNCHANGED <<inbound, internal, watched, nextJob, outbound, loop, positions,
                   events, pending, diagnostics, nsent, nfile, effects, handled,
                   lastMutation,
                   thread, window, delivered>>

\* a caller that waited takes the result of the build it waited for
BuildWake(j) ==
    /\ j \in DOMAIN pool
    /\ pool[j].pc = "waiting"
    /\ \A l \in locks : l.holder # pool[j].value.awaits
    /\ LET run == CHOOSE k \in 1 .. Len(compiled) : compiled[k].job = pool[j].value.awaits
       IN pool' = [pool EXCEPT ![j].pc = "built", ![j].value = [status |-> compiled[run].status]]
    /\ workspace' = JobWorkspace(pool[j])
    /\ UNCHANGED <<inbound, internal, watched, nextJob, outbound, loop, positions,
                   locks, compiled, events, pending, diagnostics, nsent, nfile,
                   effects, handled, lastMutation,
                   thread, window, delivered>>

\* the job of did_save: the result of the build is dropped
BuildOnSaveDone(j) ==
    /\ j \in DOMAIN pool
    /\ pool[j].kind = "build_on_save"
    /\ pool[j].pc = "built"
    /\ pool' = Without(j)
    /\ workspace' = JobWorkspace(pool[j])
    /\ UNCHANGED <<inbound, internal, watched, nextJob, outbound, loop, positions,
                   locks, compiled, events, pending, diagnostics, nsent, nfile,
                   effects, handled, lastMutation,
                   thread, window, delivered>>

(***************************************************************************)
(* The session specification: the loop, the pool and the diagnostic        *)
(* threads under the messages of a client.                                 *)
(***************************************************************************)
DidOpenMsg(uri, text, language_id) ==
    Notification("textDocument/didOpen",
                 [uri |-> uri, text |-> text, language_id |-> language_id])
DidChangeMsg(uri, changes) ==
    Notification("textDocument/didChange", [uri |-> uri, content_changes |-> changes])
DidSaveMsg(uri) == Notification("textDocument/didSave", [uri |-> uri])
DidCloseMsg(uri) == Notification("textDocument/didClose", [uri |-> uri])
DidChangeConfigurationMsg(settings) ==
    Notification("workspace/didChangeConfiguration", [settings |-> settings])
FeatureMsg(method, uri, position) == Request(method, [uri |-> uri, position |-> position])
ShutdownMsg == Request("shutdown", NoParams)
ExitMsg == Notification("exit", NoParams)

FullChange(text) == [range |-> NoRange, text |-> text]
RangeChange(from, to, text) == [range |-> [start |-> from, end |-> to], text |-> text]

FILEEVENTS == {FileEvent(kind, <<FileA>>) : kind \in {"modify", "remove", "access"}}

SessionMessages ==
    {DidOpenMsg(RawA, <<"a">>, "latex"),
     DidChangeMsg(FileA, <<RangeChange(Position(0, 0), Position(0, 0), <<NL>>)>>),
     DidCloseMsg(FileA), ShutdownMsg, ExitMsg}
    \cup {FeatureMsg("textDocument/hover", u, Position(0, 1)) : u \in {RawA, FileB}}

Next ==
    \/ \E m \in SessionMessages : ClientSend(m, MaxMsgs)
    \/ \E ev \in FILEEVENTS : WatcherEvent(ev.kind, ev.paths)
    \/ DidOpen
    \/ DidChange
    \/ DidClose
    \/ NotificationDropped
    \/ FeatureRequested
    \/ Shutdown
    \/ ShutdownWait
    \/ Join
    \/ SetDistroReceived
    \/ FileEventReceived
    \/ \E j \in 1 .. MaxJobs : FeatureStart(j)
    \/ \E j \in 1 .. MaxJobs : FeatureFinish(j)
    \/ \E j \in 1 .. MaxJobs : ConfigStart(j)
    \/ \E j \in 1 .. MaxJobs : DistroJob(j)

Spec == Init /\ [][Next]_vars

(***************************************************************************)
(* The configuration specification: clients with and without pull and      *)
(* push support, the configuration jobs, the linter, the builds and the    *)
(* diagnostic threads.                                                     *)
(***************************************************************************)
ConfigMessages ==
    {DidOpenMsg(RawA, <<"a">>, "latex"),
     DidChangeConfigurationMsg(Json42),
     DidChangeConfigurationMsg(JsonOptions(SearchOptions)),
     DidChangeMsg(FileA, <<FullChange(<<NL>>)>>),
     DidSaveMsg(FileA), DidCloseMsg(FileA)}

\* what the client answers when its configuration is pulled
ConfigAnswers == {[ok |-> TRUE, value |-> v] : v \in {Json42, JsonOptions(SearchOptions)}}

InitConfig == InitWith({NoCaps, [pull |-> TRUE, push |-> FALSE]}, {TRUE})

NextConfig ==
    \/ \E m \in ConfigMessages : ClientSend(m, MaxConfigMsgs)
    \/ \E result \in ConfigAnswers : ClientAnswer(result)
    \/ DidOpen
    \/ DidChange
    \/ DidSave
    \/ DidClose
    \/ DidChangeConfiguration
    \/ ResponseReceived
    \/ SetOptionsReceived
    \/ \E j \in 1 .. MaxJobs : ConfigStart(j)
    \/ \E j \in 1 .. MaxJobs : ConfigFinish(j)

SpecConfig == InitConfig /\ [][NextConfig]_vars

(***************************************************************************)
(* The threads specification: the session loop next to every other thread  *)
(* of the server: the jobs of the pool, the diagnostic event thread and    *)
(* the consumer of the debouncer.                                          *)
(***************************************************************************)
ThreadMessages ==
    {DidOpenMsg(RawA, <<"a">>, "latex"),
     DidChangeConfigurationMsg(JsonOptions(CustomOptions)),
     FeatureMsg("textDocument/hover", FileA, Position(0, 1))}

InitThreads == InitWith({NoCaps, [pull |-> TRUE, push |-> FALSE]}, BOOLEAN)

NextThreads ==
    \/ \E m \in ThreadMessages : ClientSend(m, MaxConfigMsgs)
    \/ ClientAnswer([ok |-> TRUE, value |-> JsonOptions(CustomOptions)])
    \/ DidOpen
    \/ DidChangeConfiguration
    \/ FeatureRequested
    \/ ResponseReceived
    \/ SetOptionsReceived
    \/ SetDistroReceived
    \/ DiagnosticPush
    \/ DiagnosticSend
    \/ DebouncerFire
    \/ \E j \in 1 .. MaxJobs : FeatureStart(j)
    \/ \E j \in 1 .. MaxJobs : FeatureFinish(j)
    \/ \E j \in 1 .. MaxJobs : ConfigStart(j)
    \/ \E j \in 1 .. MaxJobs : ConfigFinish(j)
    \/ \E j \in 1 .. MaxJobs : ChktexPush(j)
    \/ \E j \in 1 .. MaxJobs : ChktexSend(j)
    \/ \E j \in 1 .. MaxJobs : DistroJob(j)

SpecThreads == InitThreads /\ [][NextThreads]_vars

(***************************************************************************)
(* The diagnostics specification: bursts of changes, the diagnostic event  *)
(* thread, the linter jobs and the debouncer.                              *)
(***************************************************************************)
MaxDiagMsgs == 3

DiagMessages ==
    {DidOpenMsg(RawA, <<"a">>, "latex"),
     DidOpenMsg(FileB, <<"a">>, "latex"),
     DidChangeMsg(FileA, <<FullChange(<<NL>>)>>),
     DidChangeMsg(FileA, <<FullChange(<<"a", "a">>)>>),
     DidChangeConfigurationMsg(JsonOptions(CustomOptions))}

InitDiag == InitWith({NoCaps}, {TRUE})

NextDiag ==
    \/ \E m \in DiagMessages : ClientSend(m, MaxDiagMsgs)
    \/ DidOpen
    \/ DidChange
    \/ DidChangeConfiguration
    \/ DiagnosticPush
    \/ DiagnosticSend
    \/ DebouncerFire
    \/ \E j \in 1 .. MaxJobs : ConfigStart(j)
    \/ \E j \in 1 .. MaxJobs : ChktexPush(j)
    \/ \E j \in 1 .. MaxJobs : ChktexSend(j)

SpecDiag == InitDiag /\ [][NextDiag]_vars

(***************************************************************************)
(* The error specification: handlers whose I/O fails, messages no handler  *)
(* takes, and the request for semantic tokens.                             *)
(***************************************************************************)
MaxErrMsgs == 3

ErrorMessages ==
    {DidOpenMsg(RawA, <<"a">>, "latex"),
     DidChangeMsg(FileB, <<FullChange(<<NL>>)>>),
     Request("workspace/unknown", NoParams),
     Notification("window/unknown", NoParams),
     Request("textDocument/semanticTokens/range", [uri |-> FileA]),
     FeatureMsg("textDocument/hover", FileA, Position(0, 1))}

ERROREVENTS == {FileEvent("modify", <<FileA, FileB>>)}

InitErrors == InitWith({NoCaps}, {TRUE})

NextErrors ==
    \/ \E m \in ErrorMessages : ClientSend(m, MaxErrMsgs)
    \/ \E ev \in ERROREVENTS : WatcherEvent(ev.kind, ev.paths)
    \/ DidOpen
    \/ DidOpenFailed
    \/ DidChange
    \/ NotificationDropped
    \/ RequestUnhandled
    \/ SemanticTokensRange
    \/ FeatureRequested
    \/ FileEventReceived
    \/ \E j \in 1 .. MaxJobs : FeatureStart(j)
    \/ \E j \in 1 .. MaxJobs : FeatureFinish(j)
    \/ \E j \in 1 .. MaxJobs : ConfigStart(j)

SpecErrors == InitErrors /\ [][NextErrors]_vars

(***************************************************************************)
(* The forward search specification: clients that configure the tool, its  *)
(* executable alone or its arguments alone.                                *)
(***************************************************************************)
MaxSearchMsgs == 3

SearchMessages ==
    {DidOpenMsg(RawA, <<"a">>, "latex"),
     DidChangeConfigurationMsg(JsonOptions(SearchOptions)),
     DidChangeConfigurationMsg(JsonOptions(ExecutableOptions)),
     DidChangeConfigurationMsg(JsonOptions(ArgsOptions)),
     FeatureMsg("textDocument/forwardSearch", FileA, Position(0, 0)),
     FeatureMsg("textDocument/forwardSearch", FileB, Position(0, 0))}

InitSearch == InitWith({NoCaps}, {TRUE})

NextSearch ==
    \/ \E m \in SearchMessages : ClientSend(m, MaxSearchMsgs)
    \/ DidOpen
    \/ DidChangeConfiguration
    \/ FeatureRequested
    \/ \E j \in 1 .. MaxJobs : FeatureStart(j)
    \/ \E j \in 1 .. MaxJobs, executed \in EXECUTED : ForwardSearchExecute(j, executed)
    \/ \E j \in 1 .. MaxJobs : FeatureFinish(j)
    \/ \E j \in 1 .. MaxJobs : ConfigStart(j)

SpecSearch == InitSearch /\ [][NextSearch]_vars

(***************************************************************************)
(* The dispatch specification: every feature request, for a document of    *)
(* the workspace and for one that is not.                                  *)
(***************************************************************************)
DispatchMessages ==
    {DidOpenMsg(RawA, <<"a">>, "latex")}
    \cup {FeatureMsg(method, u, Position(0, 1)) : method \in FeatureMethods, u \in {RawA, FileB}}

InitDispatch == InitWith({NoCaps}, {TRUE})

NextDispatch ==
    \/ \E m \in DispatchMessages : ClientSend(m, MaxMsgs)
    \/ DidOpen
    \/ FeatureRequested
    \/ \E j \in 1 .. MaxJobs : FeatureStart(j)
    \/ \E j \in 1 .. MaxJobs : FeatureFinish(j)
    \/ \E j \in 1 .. MaxJobs : ConfigStart(j)
    \/ \E j \in 1 .. MaxJobs, spawned \in BOOLEAN : BuildEnter(j, spawned)
    \/ \E j \in 1 .. MaxJobs, status \in BUILDSTATUS : BuildExit(j, status)
    \/ \E j \in 1 .. MaxJobs : BuildWake(j)

SpecDispatch == InitDispatch /\ [][NextDispatch]_vars

(***************************************************************************)
(* The edit specification: a client that opens, edits and closes           *)
(* documents.  It writes an edit against the text it has seen last, so its *)
(* ranges lie inside the text they are applied to.                         *)
(***************************************************************************)
\* the changes a client may write against a text
ValidChanges(text) ==
    {FullChange(new) : new \in TextsUpTo(1)}
    \cup {RangeChange(from, to, new) :
             from \in Positions(text), to \in Positions(text), new \in TextsUpTo(1)}

InRange(text, change) ==
    \/ change.range = NoRange
    \/ /\ Offset(LineIndex(text), change.range.start)
             <= Offset(LineIndex(text), change.range.end)
       /\ Len(ApplyChange(text, change)) <= MaxLen

RECURSIVE ChangeLists(_, _)
ChangeLists(text, n) ==
    IF n = 0 THEN {<<>>}
    ELSE {<<>>} \cup
         UNION {{<<c>> \o rest : rest \in ChangeLists(ApplyChange(text, c), n - 1)} :
                    c \in {x \in ValidChanges(text) : InRange(text, x)}}

EditMessages ==
    {DidOpenMsg(RawA, text, "latex") : text \in TextsUpTo(1)}
    \cup {DidCloseMsg(FileA)}
    \cup {DidChangeMsg(FileB, <<FullChange(<<NL>>)>>)}
    \cup (IF Workspace_has(workspace, FileA)
          THEN {DidChangeMsg(FileA, changes) :
                    changes \in ChangeLists(workspace.docs[FileA].text, MaxChanges) \ {<<>>}}
          ELSE {})

InitEdit == InitWith({NoCaps}, {TRUE})

\* the client writes its next notification when the last one was taken
ClientEdit ==
    /\ inbound = <<>>
    /\ \E m \in EditMessages : ClientSend(m, MaxEdits)

NextEdit ==
    \/ ClientEdit
    \/ DidOpen
    \/ DidChange
    \/ DidClose
    \/ \E j \in 1 .. MaxJobs : ConfigStart(j)

SpecEdit == InitEdit /\ [][NextEdit]_vars

(***************************************************************************)
(* The build specification: build requests and builds on save for two      *)
(* documents, one of which may include the other.                          *)
(***************************************************************************)
BuildMessages ==
    {DidOpenMsg(RawA, <<"a">>, "latex"), DidOpenMsg(RawA, <<INC>>, "latex"),
     DidOpenMsg(FileB, <<"a">>, "latex"),
     DidChangeConfigurationMsg(JsonOptions(BuildOptions)),
     DidSaveMsg(FileA),
     FeatureMsg("textDocument/build", FileA, NoPosition),
     FeatureMsg("textDocument/build", FileB, NoPosition)}

InitBuild == InitWith({NoCaps}, {TRUE})

NextBuild ==
    \/ \E m \in BuildMessages : ClientSend(m, MaxBuildMsgs)
    \/ DidOpen
    \/ DidSave
    \/ DidChangeConfiguration
    \/ FeatureRequested
    \/ \E j \in 1 .. MaxJobs : FeatureStart(j)
    \/ \E j \in 1 .. MaxJobs : FeatureFinish(j)
    \/ \E j \in 1 .. MaxJobs : ConfigStart(j)
    \/ \E j \in 1 .. MaxJobs, spawned \in BOOLEAN : BuildEnter(j, spawned)
    \/ \E j \in 1 .. MaxJobs, status \in BUILDSTATUS : BuildExit(j, status)
    \/ \E j \in 1 .. MaxJobs : BuildWake(j)
    \/ \E j \in 1 .. MaxJobs : BuildOnSaveDone(j)

SpecBuild == InitBuild /\ [][NextBuild]_vars

(***************************************************************************)
(* The files specification: documents the client opens, documents loaded   *)
(* from the file system and the events of the file watcher.                *)
(***************************************************************************)
MaxFileMsgs == 3

FileMessages ==
    {DidOpenMsg(RawA, <<"a", "a">>, "latex"),
     DidOpenMsg(FileB, <<NL>>, "latex"),
     DidChangeMsg(FileB, <<FullChange(<<NL, NL>>)>>),
     DidChangeMsg(LogA, <<FullChange(<<NL, NL>>)>>),
     DidChangeMsg(Untitled, <<FullChange(<<NL, NL>>)>>)}

EVENTKINDS == {"create", "modify", "remove", "any", "access", "other"}
WATCHEREVENTS == {FileEvent(kind, <<FileA, FileB>>) : kind \in EVENTKINDS}

InitFiles == InitWith({NoCaps}, {TRUE})

NextFiles ==
    \/ \E m \in FileMessages : ClientSend(m, MaxFileMsgs)
    \/ \E ev \in WATCHEREVENTS : WatcherEvent(ev.kind, ev.paths)
    \/ DidOpen
    \/ DidChange
    \/ FileEventReceived
    \/ \E j \in 1 .. MaxJobs : ConfigStart(j)

SpecFiles == InitFiles /\ [][NextFiles]_vars

(***************************************************************************)
(* The reparse specification: the distribution and the options arrive on   *)
(* the internal channel while the client opens and closes documents.       *)
(***************************************************************************)
MaxReparseMsgs == 3

ReparseMessages ==
    {DidOpenMsg(RawA, <<"a">>, "latex"),
     DidOpenMsg(FileB, <<NL>>, "bibtex"),
     DidCloseMsg(FileA),
     DidChangeConfigurationMsg(JsonOptions(CustomOptions))}

InitReparse == InitWith({NoCaps, [pull |-> TRUE, push |-> FALSE]}, {FALSE})

NextReparse ==
    \/ \E m \in ReparseMessages : ClientSend(m, MaxReparseMsgs)
    \/ ClientAnswer([ok |-> TRUE, value |-> JsonOptions(SearchOptions)])
    \/ DidOpen
    \/ DidClose
    \/ DidChangeConfiguration
    \/ ResponseReceived
    \/ SetOptionsReceived
    \/ SetDistroReceived
    \/ \E j \in 1 .. MaxJobs : ConfigStart(j)
    \/ \E j \in 1 .. MaxJobs : ConfigFinish(j)
    \/ \E j \in 1 .. MaxJobs : DistroJob(j)

SpecReparse == InitReparse /\ [][NextReparse]_vars

(***************************************************************************)
(* The requests specification: every kind of request the loop knows, the   *)
(* ones it does not know, and the shutdown request.                        *)
(***************************************************************************)
MaxRequestMsgs == 3

RequestMessages ==
    {DidOpenMsg(RawA, <<"a">>, "latex"),
     FeatureMsg("textDocument/hover", RawA, Position(0, 1)),
     FeatureMsg("textDocument/hover", FileB, Position(0, 1)),
     Request("inlayHint/resolve", [hint |-> "h"]),
     Request("workspace/symbol", [query |-> "q"]),
     Request("workspace/executeCommand", [command |-> "c"]),
     Request("textDocument/semanticTokens/range", [uri |-> FileA]),
     Request("workspace/unknown", NoParams),
     ShutdownMsg}

InitRequests == InitWith({NoCaps}, {TRUE})

NextRequests ==
    \/ \E m \in RequestMessages : ClientSend(m, MaxRequestMsgs)
    \/ DidOpen
    \/ FeatureRequested
    \/ SpawnedRequested
    \/ InlayHintResolve
    \/ SemanticTokensRange
    \/ RequestUnhandled
    \/ Shutdown
    \/ \E j \in 1 .. MaxJobs : FeatureStart(j)
    \/ \E j \in 1 .. MaxJobs : FeatureFinish(j)
    \/ \E j \in 1 .. MaxJobs, ok \in BOOLEAN : SpawnedFinish(j, ok)
    \/ \E j \in 1 .. MaxJobs : ConfigStart(j)

SpecRequests == InitRequests /\ [][NextRequests]_vars

(***************************************************************************)
(* The shutdown specification: a client that ends the session while jobs   *)
(* are in the pool.  Every job that was submitted runs to its end, the     *)
(* wait for the exit notification ends, and pool.join returns when the     *)
(* pool is empty.                                                          *)
(***************************************************************************)
MaxShutdownMsgs == 4

ShutdownMessages ==
    {DidOpenMsg(RawA, <<"a">>, "latex"),
     FeatureMsg("textDocument/hover", RawA, Position(0, 1)),
     ShutdownMsg, ExitMsg}

InitShutdown == InitWith({NoCaps}, BOOLEAN)

NextShutdown ==
    \/ \E m \in ShutdownMessages : ClientSend(m, MaxShutdownMsgs)
    \/ DidOpen
    \/ NotificationDropped
    \/ FeatureRequested
    \/ Shutdown
    \/ ShutdownWait
    \/ Join
    \/ SetDistroReceived
    \/ \E j \in 1 .. MaxJobs : FeatureStart(j)
    \/ \E j \in 1 .. MaxJobs : FeatureFinish(j)
    \/ \E j \in 1 .. MaxJobs : ConfigStart(j)
    \/ \E j \in 1 .. MaxJobs : DistroJob(j)

FairShutdown ==
    /\ WF_vars(ShutdownWait)
    /\ WF_vars(Join)
    /\ \A j \in 1 .. MaxJobs :
           /\ WF_vars(FeatureStart(j))
           /\ WF_vars(FeatureFinish(j))
           /\ WF_vars(ConfigStart(j))
           /\ WF_vars(DistroJob(j))

SpecShutdown == InitShutdown /\ [][NextShutdown]_vars /\ FairShutdown

(***************************************************************************)
(* The publication specification: the diagnostic event thread, the linter  *)
(* jobs and the consumer of the debouncer keep running; the timer of the   *)
(* debouncer runs out when nothing is submitted any more.                  *)
(***************************************************************************)
MaxPublishMsgs == 3

PublishMessages ==
    {DidOpenMsg(RawA, <<"a">>, "latex"),
     DidOpenMsg(FileB, <<"a">>, "latex"),
     DidChangeMsg(LogA, <<FullChange(<<NL>>)>>),
     DidChangeConfigurationMsg(JsonOptions(CustomOptions))}

InitPublish == InitWith({NoCaps}, {TRUE})

NextPublish ==
    \/ \E m \in PublishMessages : ClientSend(m, MaxPublishMsgs)
    \/ DidOpen
    \/ DidChange
    \/ DidChangeConfiguration
    \/ DiagnosticPush
    \/ DiagnosticSend
    \/ DebouncerFire
    \/ \E j \in 1 .. MaxJobs : ConfigStart(j)
    \/ \E j \in 1 .. MaxJobs : ChktexPush(j)
    \/ \E j \in 1 .. MaxJobs : ChktexSend(j)

FairPublish ==
    /\ WF_vars(DidOpen)
    /\ WF_vars(DidChange)
    /\ WF_vars(DidChangeConfiguration)
    /\ WF_vars(DiagnosticPush)
    /\ WF_vars(DiagnosticSend)
    /\ WF_vars(DebouncerFire)
    /\ \A j \in 1 .. MaxJobs :
           /\ WF_vars(ConfigStart(j))
           /\ WF_vars(ChktexPush(j))
           /\ WF_vars(ChktexSend(j))

SpecPublish == InitPublish /\ [][NextPublish]_vars /\ FairPublish

FeatureJobs == {j \in DOMAIN pool : pool[j].kind = "feature"}

\* the workspace the handler of a feature job runs against: the slice of its
\* request, taken when the job starts
HandlerWorkspace(j) ==
    IF pool[j].pc = "queued" THEN feature_job(pool[j]).request.workspace
    ELSE pool[j].request.workspace

\* C1: when a didOpen or didChange for a URI was handled by the loop before a
\* feature request for that URI was taken, the workspace the handler of the
\* request runs against holds the document with the text that notification
\* left, however the jobs and the loop interleave afterwards.
C1_PostMutationObserved ==
    \A j \in FeatureJobs :
        pool[j].expect # NoText =>
            /\ Workspace_has(HandlerWorkspace(j), pool[j].uri)
            /\ HandlerWorkspace(j).docs[pool[j].uri].text = pool[j].expect

\* a handler runs against the text a didChange left although the session has
\* moved on since
C1_Witness ==
    \E j \in FeatureJobs :
        /\ pool[j].pc = "handling"
        /\ pool[j].expect = <<NL, "a">>
        /\ pool[j].request.workspace.docs[FileA].text = <<NL, "a">>
        /\ DocOf(workspace, FileA) # DocOf(pool[j].atDispatch, FileA)

\* C2: the workspace a feature handler runs against is the slice of the
\* workspace of dispatch time (documents, options, viewport, resolver),
\* whatever the loop has handled since.
C2_SnapshotFixed ==
    \A j \in FeatureJobs :
        pool[j].pc = "handling" =>
            pool[j].request.workspace = Workspace_slice(pool[j].atDispatch, pool[j].uri)

\* a handler is running while the session's documents, viewport and
\* resolver have all changed since its request was dispatched
C2_Witness ==
    \E j \in FeatureJobs :
        /\ pool[j].pc = "handling"
        /\ workspace.docs # pool[j].atDispatch.docs
        /\ workspace.viewport # pool[j].atDispatch.viewport
        /\ workspace.resolver # pool[j].atDispatch.resolver

ShutdownTaken ==
    \E k \in 1 .. Len(handled) :
        handled[k].type = "request" /\ handled[k].method = "shutdown"

\* C6: once the loop has taken a shutdown request it takes no further
\* message from either channel: from then on the workspace, the position
\* table, the events and the jobs submitted stay as they are.
C6_NothingAfterShutdown ==
    [][ShutdownTaken =>
          /\ handled' = handled
          /\ workspace' = workspace
          /\ positions' = positions
          /\ events' = events
          /\ nextJob' = nextJob
          /\ internal' = internal \/ Len(internal') > Len(internal)]_vars

\* process_messages has returned while a protocol message and an internal
\* message are still waiting
C6_Witness ==
    /\ ShutdownTaken
    /\ loop \in {"joining", "failed"}
    /\ inbound # <<>>
    /\ internal # <<>>

\* C3: the session's workspace changes only in a step of the session loop,
\* one that takes a message; no step of a job of the pool, of the diagnostic
\* event thread or of the consumer of the debouncer changes it.
C3_OnlyLoopMutates ==
    [][workspace' # workspace => Len(handled') = Len(handled) + 1]_vars

\* the diagnostic thread and the debouncer have run, and a job that has
\* started holds a snapshot the session has moved away from
C3_Witness ==
    /\ diagnostics[FileA].syntax # NoText
    /\ \E s \in outbound : /\ s.msg.type = "notification"
                           /\ s.msg.method = "textDocument/publishDiagnostics"
    /\ \E j \in DOMAIN pool :
           pool[j].pc # "queued" /\ pool[j].fork.workspace # workspace

IsClient(m) == m.type \in {"notification", "request"}
IsConfiguration(m) ==
    m.type = "notification" /\ m.method = "workspace/didChangeConfiguration"
Increasing(s) == \A i, k \in 1 .. Len(s) : i < k => s[i] < s[k]

\* the client message with a sequence number is a didChangeConfiguration
\* whose options the server pulls
Pulled(seq) ==
    /\ workspace.caps.pull
    /\ \E k \in 1 .. Len(handled) :
           IsConfiguration(handled[k]) /\ handled[k].seq = seq
Synchronous(seq) == ~Pulled(seq)

\* C4 as stated: the notifications take effect on the workspace in the order
\* they were received.
C4_Original == Increasing(effects)

\* C4 amended: the loop takes the client messages in the order of receipt,
\* one at a time; didOpen, didChange, didSave and didClose, and a
\* didChangeConfiguration of a client without pull support, have taken
\* effect when they are handled, so their effects are in receive order.
C4_ReceiveOrder ==
    /\ Increasing(SelectSeq(effects, Synchronous))
    /\ LET taken == SelectSeq(handled, IsClient)
       IN \A k \in 1 .. Len(taken) :
              /\ taken[k].seq = k
              /\ (taken[k].type = "notification" /\ Synchronous(k))
                     => \E i \in 1 .. Len(effects) : effects[i] = k

\* a client without pull support: a didChangeConfiguration and another
\* notification have taken effect
C4_Witness ==
    /\ ~workspace.caps.pull
    /\ effects = <<1, 2>>
    /\ \E k \in 1 .. Len(handled) : IsConfiguration(handled[k])

Unparsable(m) == IsConfiguration(m) /\ ~from_value(m.params.settings).ok

\* the loop takes a didChangeConfiguration whose settings do not parse
TakesUnparsable ==
    /\ loop = "running"
    /\ inbound # <<>>
    /\ Unparsable(Head(inbound))
    /\ handled' = Append(handled, Head(inbound))

\* C8 as stated: settings that do not parse leave the options as they were
\* and no document is opened again.
C8_Original ==
    [][TakesUnparsable => workspace'.options = workspace.options /\ events' = events]_vars

\* C8 amended: for a client without pull support, settings that do not
\* parse reset the options to the defaults and every document is opened
\* again with a Changed event; for a client with pull support the settings
\* are not looked at: a job that pulls the configuration is spawned and the
\* workspace is left alone.
C8_DefaultsAndReparse ==
    [][TakesUnparsable =>
          IF workspace.caps.pull
          THEN /\ workspace' = workspace
               /\ events' = events
               /\ nextJob' = nextJob + 1
               /\ pool'[nextJob].kind = "pull_config"
          ELSE /\ workspace'.options = DefaultOptions
               /\ workspace'.docs = workspace.docs
               /\ Len(events') = Len(events) + Cardinality(DOMAIN workspace.docs)
               /\ nextJob' = nextJob]_vars

\* options a client had configured are back at the defaults after settings
\* that do not parse
C8_Witness ==
    /\ ~workspace.caps.pull
    /\ Len(handled) = 2
    /\ IsConfiguration(handled[1])
    /\ handled[1].params.settings = JsonOptions(SearchOptions)
    /\ Unparsable(handled[2])
    /\ workspace.options = DefaultOptions

Warned(cause) == \E s \in outbound : s.msg = ShowMessageWarning /\ s.cause = cause
Quiescent == inbound = <<>> /\ internal = <<>> /\ DOMAIN pool = {}

\* C9 as stated: settings that do not parse have caused a warning once the
\* server has nothing left to do, whatever the client supports.
C9_Original ==
    Quiescent => \A k \in 1 .. Len(handled) :
                     Unparsable(handled[k]) => Warned(handled[k].seq)

UnparsablePull(m) ==
    /\ m.type = "response"
    /\ m.id.method = "workspace/configuration"
    /\ m.result.ok
    /\ ~from_value(m.result.value).ok

\* C9 amended: for a client without pull support the warning is sent when
\* the notification is handled; for a client with pull support the warning
\* is sent exactly for a pulled value that does not parse, whatever the
\* settings of the notification were.
C9_WarningWhenParsed ==
    IF ~workspace.caps.pull
    THEN \A k \in 1 .. Len(handled) :
             IsConfiguration(handled[k]) => (Unparsable(handled[k]) <=> Warned(handled[k].seq))
    ELSE /\ \A k \in 1 .. Len(handled) :
                UnparsablePull(handled[k]) =>
                    \/ Warned(handled[k].id.cause)
                    \/ handled[k].id.job \in DOMAIN pool
         /\ \A s \in outbound :
                s.msg = ShowMessageWarning =>
                    \E k \in 1 .. Len(handled) :
                        UnparsablePull(handled[k]) /\ handled[k].id.cause = s.cause

\* a client with pull support: settings that do not parse were pushed, the
\* pulled value parsed, the server is done and no warning was sent
C9_Witness ==
    /\ workspace.caps.pull
    /\ Quiescent
    /\ workspace.options = SearchOptions
    /\ \E k \in 1 .. Len(handled) : Unparsable(handled[k]) /\ ~Warned(handled[k].seq)

IsFeature(m) == m.type = "request" /\ m.method \in FeatureMethods
UnknownDocument(id) == ResponseErr(id, "InvalidRequest", "unknown document")

\* C5: a feature request whose target is no document of the workspace when
\* it is dispatched never reaches its handler, and the only answer it gets
\* is the error InvalidRequest "unknown document" under its own id; every
\* feature request the loop has taken is a job of the pool or is answered.
C5_UnknownDocument ==
    /\ \A j \in FeatureJobs :
           ~Workspace_has(pool[j].atDispatch, pool[j].uri) => pool[j].pc = "queued"
    /\ \A s \in outbound :
           (s.msg.type = "response" /\ ~s.known) => s.msg = UnknownDocument(s.cause)
    /\ \A k \in 1 .. Len(handled) :
           IsFeature(handled[k]) =>
               \/ \E j \in FeatureJobs : pool[j].id = handled[k].seq
               \/ \E s \in outbound : s.msg.type = "response" /\ s.msg.id = handled[k].seq

\* a build request for a document that was never opened is answered with
\* the error, a forward search for an open document with a result
C5_Witness ==
    /\ \E s \in outbound :
           ~s.known /\ s.method = "textDocument/build" /\ s.msg = UnknownDocument(s.cause)
    /\ \E s \in outbound :
           s.known /\ s.method = "textDocument/forwardSearch" /\ s.msg.ok

\* what the protocol says a content change does to a text: the text before
\* the start of the range, the new text, the text from the end of the range
NewLinesBefore(text, k) == Cardinality({i \in 1 .. k : text[i] = NL})
LineStartBefore(text, k) ==
    LET ends == {i \in 1 .. k : text[i] = NL}
    IN IF ends = {} THEN 0 ELSE CHOOSE i \in ends : \A e \in ends : e <= i

ProtocolOffset(text, pos) ==
    CHOOSE k \in 0 .. Len(text) :
        /\ NewLinesBefore(text, k) = pos.line
        /\ k - LineStartBefore(text, k) = pos.character

ProtocolChange(text, change) ==
    IF change.range = NoRange THEN change.text
    ELSE LET from == ProtocolOffset(text, change.range.start)
             to == ProtocolOffset(text, change.range.end)
             new == change.text
         IN [i \in 1 .. from + Len(new) + Len(text) - to |->
                IF i <= from THEN text[i]
                ELSE IF i <= from + Len(new) THEN new[i - from]
                ELSE text[i - from - Len(new) + to]]

RECURSIVE ProtocolChanges(_, _)
ProtocolChanges(text, changes) ==
    IF changes = <<>> THEN text
    ELSE ProtocolChanges(ProtocolChange(text, Head(changes)), Tail(changes))

\* the text the notifications of a log give a URI, from a text to start with
RECURSIVE Replay(_, _, _)
Replay(log, uri, text) ==
    IF log = <<>> THEN text
    ELSE LET m == Head(log)
             mine == m.type = "notification" /\ m.method \in
                         {"textDocument/didOpen", "textDocument/didChange"}
                     /\ normalize_uri(m.params.uri) = uri
         IN Replay(Tail(log), uri,
                   IF ~mine THEN text
                   ELSE IF m.method = "textDocument/didOpen" THEN m.params.text
                   ELSE ProtocolChanges(text, m.params.content_changes))

\* the log from the last didOpen of the URI on; empty if there is none
SinceOpen(log, uri) ==
    LET opens == {k \in 1 .. Len(log) :
                     /\ log[k].type = "notification"
                     /\ log[k].method = "textDocument/didOpen"
                     /\ normalize_uri(log[k].params.uri) = uri}
    IN IF opens = {} THEN <<>>
       ELSE SubSeq(log, CHOOSE k \in opens : \A o \in opens : o <= k, Len(log))

\* C7 as stated: the text of every document of the workspace is what the
\* content changes of the notifications give, applied in order.
C7_Original ==
    \A uri \in DOMAIN workspace.docs :
        workspace.docs[uri].text = Replay(handled, uri, <<>>)

\* C7 amended: the text of every document that a didOpen has opened is the
\* text of its last didOpen with the content changes of the later
\* didChange notifications applied in order, each range resolved against
\* the text the change before it produced, a change without a range
\* replacing the whole text.
C7_TextIsReplay ==
    \A uri \in DOMAIN workspace.docs :
        SinceOpen(handled, uri) # <<>> =>
            workspace.docs[uri].text = Replay(SinceOpen(handled, uri), uri, <<>>)

\* a didChange with two changes, the first of which moved the line the
\* second addresses, has been applied to an open document
C7_Witness ==
    /\ Len(handled) = 2
    /\ handled[1].method = "textDocument/didOpen"
    /\ handled[1].params.text = <<NL>>
    /\ handled[2].method = "textDocument/didChange"
    /\ handled[2].params.content_changes =
           <<RangeChange(Position(0, 0), Position(0, 0), <<"a">>),
             RangeChange(Position(1, 0), Position(1, 0), <<"a">>)>>
    /\ workspace.docs[FileA].text = <<"a", NL, "a">>

\* C10: at every instant at most one build of a root is executing, whatever
\* build requests and builds on save the pool runs; builds of different
\* roots execute at the same time.
C10_OneBuildPerRoot == \A root \in URIS : Cardinality(Executing(root)) <= 1

\* the builds of two roots execute at the same time
C10_Witness == Executing(FileA) # {} /\ Executing(FileB) # {}

\* the answers to the build requests a compiler run serves
BuildAnswers(k) ==
    {s \in outbound : /\ s.method = "textDocument/build"
                      /\ s.msg.type = "response"
                      /\ s.msg.ok
                      /\ s.cause \in compiled[k].served}

\* C11: a build request that reaches the engine while a build of its root
\* is running spawns no compiler of its own: no compiler run starts while
\* another run of its root executes and no request is served by two runs;
\* the request waits, and its response carries the status of the run it
\* waited for, the same status as the response of the first caller.
C11_Coalesced ==
    \A k \in 1 .. Len(compiled) :
        /\ compiled[k].during = {}
        /\ \A i \in 1 .. Len(compiled) :
               i # k => compiled[i].served \cap compiled[k].served \subseteq {0}
        /\ \A s \in BuildAnswers(k) :
               /\ compiled[k].status # "RUNNING"
               /\ s.msg.result = build_closure([status |-> compiled[k].status])

\* two build requests for one root were served by a single compiler run that
\* failed, and both were answered
C11_Witness ==
    /\ Len(compiled) = 1
    /\ Cardinality(compiled[1].served) = 2
    /\ compiled[1].status = "FAILURE"
    /\ Cardinality(BuildAnswers(1)) = 2
    /\ \A s \in BuildAnswers(1) : s.msg.result.status = "FAILURE"

\* the notifications of a delivery for one URI
PublishedFor(d, u) ==
    {s \in d.sent : s.msg.method = "textDocument/publishDiagnostics" /\ s.msg.uri = u}

Published(ws) == {u \in DOMAIN ws.docs : ws.docs[u].language # "log"}

FromSnapshot(s, ws) ==
    /\ s.msg.diagnostics.syntax = ws.docs[s.msg.uri].text
    /\ s.msg.diagnostics.chktex \in {NoText, ws.docs[s.msg.uri].text}

\* C17 as stated: the diagnostics every publication sends for a document are
\* those computed from the workspace snapshot the publication iterates.
C17_Original ==
    \A k \in 1 .. Len(delivered) :
        \A u \in Published(delivered[k].workspace) :
            \A s \in PublishedFor(delivered[k], u) : FromSnapshot(s, delivered[k].workspace)

\* C17: a publication iterates the documents of the workspace the debouncer
\* delivers and sends for each what the shared manager holds for its URI at
\* that moment; the syntax diagnostics among them are those of the delivered
\* snapshot when no push is waiting to be submitted and every submission of
\* the burst came from the diagnostic thread.
C17_ManagerAtPublication ==
    [][Len(delivered') = Len(delivered) + 1 =>
          LET d == delivered'[Len(delivered')]
          IN /\ d.workspace = pending
             /\ \A u \in Published(pending) :
                    PublishedFor(d, u) = {Sent(PublishDiagnostics(u, diagnostics[u]), 0)}
             /\ (Submitted /\ \A i \in 1 .. Len(window) : window[i].by = "syntax")
                    => \A s \in d.sent :
                           s.msg.diagnostics.syntax = pending.docs[s.msg.uri].text]_vars

\* a publication iterated a snapshot in which a document has one text and
\* sent the diagnostics of a later text, pushed and not yet submitted
C17_Witness ==
    \E k \in 1 .. Len(delivered) :
        /\ ~delivered[k].settled
        /\ Workspace_has(delivered[k].workspace, FileA)
        /\ delivered[k].workspace.docs[FileA].text = <<"a">>
        /\ \E s \in PublishedFor(delivered[k], FileA) : s.msg.diagnostics.syntax = <<NL>>

Taken == handled'[Len(handled')]
Takes(type) == Len(handled') = Len(handled) + 1 /\ Taken.type = type

\* C14: a request that is not the shutdown request and that no handler is
\* registered for is answered by the loop with a method-not-found error
\* response carrying the id of the request, and the loop stays running; a
\* notification no handler is registered for is taken without a reply and
\* without a change of the workspace.
C14_MethodNotFound ==
    [][/\ (Takes("request") /\ Taken.method \notin RequestMethods \cup {"shutdown"}) =>
              /\ \E s \in outbound' \ outbound :
                     /\ s.msg.type = "response"
                     /\ ~s.msg.ok
                     /\ s.msg.id = Taken.seq
                     /\ s.msg.result.code = "MethodNotFound"
              /\ Cardinality(outbound' \ outbound) = 1
              /\ loop' = "running"
              /\ workspace' = workspace
       /\ (Takes("notification") /\ Taken.method \notin NotificationMethods) =>
              /\ outbound' = outbound
              /\ workspace' = workspace
              /\ pool' = pool
              /\ loop' = "running"]_vars

\* a request and a notification without a handler were taken, the request
\* has its error response, and the loop handled a didOpen after them
C14_Witness ==
    /\ Len(handled) = 3
    /\ \A k \in 1 .. 3 : handled[k].type \in {"request", "notification"}
    /\ handled[1].method = "workspace/unknown"
    /\ handled[2].method = "window/unknown"
    /\ handled[3].method = "textDocument/didOpen"
    /\ Workspace_has(workspace, FileA)
    /\ \E s \in outbound : /\ s.msg.type = "response"
                           /\ s.msg.id = handled[1].seq
                           /\ s.msg.result.code = "MethodNotFound"

\* a set of documents of ws that holds every document of ws one of its
\* members includes
Closed(ws, S) ==
    \A x \in S : \A y \in DOMAIN ws.docs : y \in Links(ws.docs[x]) => y \in S

\* the slice sl was taken of ws for the target uri
SliceOf(sl, ws, uri) ==
    IF Workspace_has(ws, uri)
    THEN /\ uri \in DOMAIN sl.docs
         /\ DOMAIN sl.docs \subseteq DOMAIN ws.docs
         /\ \A x \in DOMAIN sl.docs : sl.docs[x] = ws.docs[x]
         /\ Closed(ws, DOMAIN sl.docs)
    ELSE DOMAIN sl.docs = {}

\* C15 as stated: for every URI, opened or not, the slice of the workspace
\* for it contains it and is closed under inclusion.
C15_Original ==
    \A u \in URIS :
        /\ u \in DOMAIN Workspace_slice(workspace, u).docs
        /\ Closed(workspace, DOMAIN Workspace_slice(workspace, u).docs)

\* C15: for every URI that is a document of the workspace the slice for it
\* contains it and every document of the workspace that a member of the
\* slice includes; for a URI that is no document of the workspace the slice
\* is empty.  This holds of the workspace of the session and of the request
\* every job is given, taken of the workspace of its fork.
C15_SliceClosed ==
    /\ \A u \in URIS : SliceOf(Workspace_slice(workspace, u), workspace, u)
    /\ \A j \in DOMAIN pool :
           pool[j].request # NoRequest =>
               SliceOf(pool[j].request.workspace, pool[j].fork.workspace, pool[j].uri)

\* a request for a document that was not opened was rejected, and a handler
\* runs on a slice that holds its target and the document that includes it
C15_Witness ==
    /\ \E s \in outbound : /\ ~s.known
                           /\ s.msg.type = "response"
                           /\ ~s.msg.ok
                           /\ s.msg.result.message = "unknown document"
    /\ \E j \in FeatureJobs :
           /\ pool[j].request # NoRequest
           /\ pool[j].uri = FileB
           /\ DOMAIN pool[j].request.workspace.docs = {FileA, FileB}
    /\ DOMAIN Workspace_slice(workspace, Untitled).docs = {}

\* a didClose for the target of the job was handled before its request
ClosedBefore(job) ==
    \E k \in 1 .. Len(handled) :
        /\ handled[k].type = "notification"
        /\ handled[k].method = "textDocument/didClose"
        /\ normalize_uri(handled[k].params.uri) = job.uri
        /\ handled[k].seq < job.id

\* C16: a didClose takes the URI out of the viewport and changes nothing
\* else: the document stays in the workspace with its text, no event is
\* emitted, no job is spawned and nothing is sent.  A feature request for
\* the document that is dispatched after the didClose is handed to its
\* handler with a slice that holds the document; it is not rejected as
\* unknown.
C16_CloseOnlyViewport ==
    [][/\ (Takes("notification") /\ Taken.method = "textDocument/didClose") =>
              /\ workspace' = [workspace EXCEPT
                                  !.viewport = @ \ {normalize_uri(Taken.params.uri)}]
              /\ events' = events
              /\ pool' = pool
              /\ positions' = positions
              /\ outbound' = outbound
       /\ \A j \in FeatureJobs :
              (/\ pool[j].pc = "queued"
               /\ ClosedBefore(pool[j])
               /\ Workspace_has(pool[j].atDispatch, pool[j].uri)
               /\ (j \in DOMAIN pool' => pool'[j].pc # "queued"))
                  => /\ j \in DOMAIN pool'
                     /\ pool'[j].pc = "handling"
                     /\ pool[j].uri \in DOMAIN pool'[j].request.workspace.docs]_vars

\* a document was opened and closed, it is out of the viewport and still in
\* the workspace, and a hover for it that came after the didClose was answered
C16_Witness ==
    /\ Len(handled) = 3
    /\ \A k \in 1 .. 3 : handled[k].type \in {"request", "notification"}
    /\ handled[1].method = "textDocument/didOpen"
    /\ handled[2].method = "textDocument/didClose"
    /\ handled[3].method = "textDocument/hover"
    /\ normalize_uri(handled[3].params.uri) = FileA
    /\ FileA \notin workspace.viewport
    /\ Workspace_has(workspace, FileA)
    /\ \E s \in outbound : /\ s.cause = handled[3].seq
                           /\ s.msg.type = "response"
                           /\ s.msg.ok
                           /\ s.known

\* the response a forward search job sends in this step
SearchAnswer(j) ==
    {s \in outbound' \ outbound : s.msg.type = "response" /\ s.msg.id = pool[j].id}

\* C18: a forwardSearch request for a document of the workspace is answered
\* UNCONFIGURED when the options of its snapshot lack the executable or the
\* arguments, and the tool is not invoked; when both are configured the tool
\* is invoked and the answer is ERROR if the invocation fails and SUCCESS
\* otherwise.
C18_ForwardSearchStatus ==
    [][\A j \in FeatureJobs :
           (/\ pool[j].method = "textDocument/forwardSearch"
            /\ pool[j].pc \in {"handling", "searched"}
            /\ j \notin DOMAIN pool') =>
               LET fs == pool[j].request.workspace.options.forward_search
               IN /\ Cardinality(SearchAnswer(j)) = 1
                  /\ \A s \in SearchAnswer(j) :
                         /\ s.msg.ok
                         /\ s.msg.result.status =
                                IF ~fs.executable \/ ~fs.args THEN "UNCONFIGURED"
                                ELSE IF pool[j].value.executed = "None" THEN "ERROR"
                                ELSE "SUCCESS"
                  /\ (pool[j].pc = "searched") = (fs.executable /\ fs.args)]_vars

SearchStatus(k) ==
    {s.msg.result.status : s \in {t \in outbound : t.cause = handled[k].seq /\ t.known}}

\* a forward search with the executable configured and the arguments missing
\* was answered UNCONFIGURED
C18_Witness ==
    /\ Len(handled) = 3
    /\ handled[1].method = "textDocument/didOpen"
    /\ handled[2].method = "workspace/didChangeConfiguration"
    /\ handled[2].params.settings = JsonOptions(ExecutableOptions)
    /\ handled[3].method = "textDocument/forwardSearch"
    /\ SearchStatus(3) = {"UNCONFIGURED"}

\* the response a build job sends in this step
BuildAnswer(j) ==
    {s \in outbound' \ outbound : s.msg.type = "response" /\ s.msg.id = pool[j].id}

C20_Acknowledged ==
    \A k \in 1 .. Len(handled) :
        (/\ handled[k].type = "request"
         /\ handled[k].method = "textDocument/semanticTokens/range"
         /\ \A j \in DOMAIN pool : pool[j].id # handled[k].seq)
            => \E s \in outbound : /\ s.msg.type = "response"
                                   /\ s.msg.id = handled[k].seq
                                   /\ s.msg.ok

\* the loop takes a file event of one of the kinds in this step
FileEventTaken(kinds) == Takes("FileEvent") /\ Taken.kind \in kinds

\* C21 as stated: after a file event of kind create or modify every path of
\* the event that the file system can read has a document in the workspace.
C21_Original ==
    [][FileEventTaken({"create", "modify"}) =>
          \A k \in 1 .. Len(Taken.paths) :
              Taken.reads[k] # IoError => Workspace_has(workspace', Taken.paths[k])]_vars

\* C21: on a file event of kind create or modify the loop reloads every path
\* of the event: a path that has a document in the workspace and that can be
\* read gets the text of the file, with the language of its extension, and
\* one Changed event; a path that has no document in the workspace is not
\* loaded, and a path that cannot be read keeps its document.  The set of
\* documents, the viewport and the options are as before.
C21_ReloadKnown ==
    [][FileEventTaken({"create", "modify"}) =>
          LET reloaded == {k \in 1 .. Len(Taken.paths) :
                              /\ Workspace_has(workspace, Taken.paths[k])
                              /\ Taken.reads[k] # IoError}
          IN /\ DOMAIN workspace'.docs = DOMAIN workspace.docs
             /\ \A k \in 1 .. Len(Taken.paths) :
                    IF k \in reloaded
                    THEN workspace'.docs[Taken.paths[k]]
                             = Document(Taken.reads[k].text, by_path(Taken.paths[k]))
                    ELSE DocOf(workspace', Taken.paths[k]) = DocOf(workspace, Taken.paths[k])
             /\ Len(events') = Len(events) + Cardinality(reloaded)
             /\ {events'[i].uri : i \in Len(events) + 1 .. Len(events')}
                    = {Taken.paths[k] : k \in reloaded}
             /\ workspace'.viewport = workspace.viewport
             /\ workspace'.options = workspace.options]_vars

\* a modify event for two readable paths was handled: the document the
\* client had opened has the text of the file, the other path has no document
C21_Witness ==
    /\ handled # <<>>
    /\ handled[Len(handled)].type = "FileEvent"
    /\ handled[Len(handled)].kind = "modify"
    /\ \A k \in 1 .. 2 : handled[Len(handled)].reads[k] # IoError
    /\ Workspace_has(workspace, FileA)
    /\ workspace.docs[FileA].text = <<"a">>
    /\ ~Workspace_has(workspace, FileB)

\* C22: on a file event of kind remove the document of every path of the
\* event is erased, the other documents stay, no Changed event is emitted,
\* nothing is sent and no job is spawned; a file event of kind any, access or
\* other leaves the workspace as it is and emits nothing.
C22_RemoveSilent ==
    [][/\ FileEventTaken({"remove"}) =>
              /\ \A k \in 1 .. Len(Taken.paths) : ~Workspace_has(workspace', Taken.paths[k])
              /\ \A u \in URIS \ Range(Taken.paths) :
                     DocOf(workspace', u) = DocOf(workspace, u)
              /\ events' = events
              /\ outbound' = outbound
              /\ pool' = pool
       /\ FileEventTaken({"any", "access", "other"}) =>
              /\ workspace' = workspace
              /\ events' = events
              /\ outbound' = outbound
              /\ pool' = pool]_vars

\* two documents were opened, and after a remove event for both the
\* workspace has neither
C22_Witness ==
    /\ Len(handled) = 3
    /\ \A k \in 1 .. 2 : /\ handled[k].type = "notification"
                          /\ handled[k].method = "textDocument/didOpen"
    /\ {normalize_uri(handled[k].params.uri) : k \in 1 .. 2} = {FileA, FileB}
    /\ handled[3].type = "FileEvent"
    /\ handled[3].kind = "remove"
    /\ DOMAIN workspace.docs = {}

\* the Changed events the loop emits in this step
Emitted == SubSeq(events', Len(events) + 1, Len(events'))

\* C23: when the loop handles SetDistro the resolver, and when it handles
\* SetOptions the options, of the message are in the session workspace
\* before a document is reparsed: the step re-opens every document of the
\* workspace, and each Changed event it emits carries a workspace with the
\* new resolver or options.
C23_InstalledBeforeReparse ==
    [][/\ Takes("SetDistro") =>
              /\ workspace'.resolver = Taken.resolver
              /\ \A i \in 1 .. Len(Emitted) :
                     Emitted[i].workspace.resolver = Taken.resolver
              /\ {Emitted[i].uri : i \in 1 .. Len(Emitted)} = DOMAIN workspace.docs
       /\ Takes("SetOptions") =>
              /\ workspace'.options = Taken.options
              /\ \A i \in 1 .. Len(Emitted) :
                     Emitted[i].workspace.options = Taken.options
              /\ {Emitted[i].uri : i \in 1 .. Len(Emitted)} = DOMAIN workspace.docs]_vars

\* with two documents open the distribution was installed and then the
\* options the client was asked for: the last event carries both
C23_Witness ==
    /\ Len(handled) >= 2
    /\ handled[Len(handled)].type = "SetOptions"
    /\ \E i \in 1 .. Len(handled) - 1 : handled[i].type = "SetDistro"
    /\ DOMAIN workspace.docs = {FileA, FileB}
    /\ events # <<>>
    /\ events[Len(events)].workspace.options = SearchOptions
    /\ events[Len(events)].workspace.resolver = "texlive"

\* the loop runs reparse_all in this step
Reparses ==
    \/ Takes("SetDistro")
    \/ Takes("SetOptions")
    \/ /\ Takes("notification")
       /\ Taken.method = "workspace/didChangeConfiguration"
       /\ ~workspace.caps.pull

\* C30: reparse_all keeps the contents of the workspace: the documents with
\* their texts and languages and the viewport are the same after it; every
\* document is re-opened exactly once, with its own text and language; and
\* the auxiliary directory of the options, or "." when none is configured,
\* is registered with the watcher.
C30_ReparsePreserves ==
    [][Reparses =>
          /\ workspace'.docs = workspace.docs
          /\ workspace'.viewport = workspace.viewport
          /\ Len(Emitted) = Cardinality(DOMAIN workspace.docs)
          /\ \A u \in DOMAIN workspace.docs :
                 \E i \in 1 .. Len(Emitted) :
                     /\ Emitted[i].uri = u
                     /\ Emitted[i].workspace.docs[u] = workspace.docs[u]
          /\ watched' = watched \cup
                 {IF workspace'.options.aux_directory = "none" THEN "."
                  ELSE workspace'.options.aux_directory}]_vars

\* a LaTeX and a BibTeX document, one of them closed, were reparsed under
\* the default options and under options that name a directory
C30_Witness ==
    /\ handled # <<>>
    /\ handled[Len(handled)].type \in {"SetOptions", "notification"}
    /\ watched = {".", "build"}
    /\ DOMAIN workspace.docs = {FileA, FileB}
    /\ workspace.docs[FileB].language = "bibtex"
    /\ workspace.viewport = {FileB}
    /\ Len(events) >= 4

\* the jobs the loop submits to the pool in this step
Submits == {j \in DOMAIN pool' \ DOMAIN pool : pool'[j].pc = "queued"}

\* C24: when the loop takes a completion or hover request for URI u at
\* position p, the position table of the build engine maps u to p in the
\* state in which the job of the request is submitted to the pool, whether
\* u is a document of the workspace or not; no other entry of the table
\* changes.
C24_PositionBeforeDispatch ==
    [][(Takes("request") /\ Taken.method \in CursorMethods) =>
          LET u == normalize_uri(Taken.params.uri)
          IN /\ positions'[u] = Taken.params.position
             /\ \A x \in URIS \ {u} : positions'[x] = positions[x]
             /\ \E j \in Submits : /\ pool'[j].id = Taken.seq
                                    /\ pool'[j].uri = u
                                    /\ pool'[j].method = Taken.method]_vars

\* the job of a completion request for a URI without a document waits in the
\* pool, and the table has the position of the request for that URI
C24_Witness ==
    \E j \in FeatureJobs :
        /\ pool[j].pc = "queued"
        /\ pool[j].method = "textDocument/completion"
        /\ pool[j].uri = FileB
        /\ ~Workspace_has(pool[j].atDispatch, FileB)
        /\ ~Workspace_has(workspace, FileB)
        /\ positions[FileB] = Position(0, 1)

\* the builds on save in the pool
SaveBuilds == {j \in DOMAIN pool : pool[j].kind = "build_on_save"}

\* C25: a didSave for URI u submits one build job for u when build.onSave is
\* set and u is a document of the workspace as the notification is handled,
\* and no build job otherwise; no step of a build started by a save sends a
\* message to the client, and no response carries the id of a didSave.
C25_BuildOnSave ==
    [][/\ (Takes("notification") /\ Taken.method = "textDocument/didSave") =>
              LET u == normalize_uri(Taken.params.uri)
                  builds == {j \in Submits : pool'[j].kind = "build_on_save"}
              IN /\ Cardinality(builds) =
                        IF Workspace_has(workspace, u) /\ workspace.options.build_on_save
                        THEN 1 ELSE 0
                 /\ \A j \in builds : pool'[j].uri = u /\ pool'[j].request.uri = u
                 /\ \A j \in Submits : pool'[j].kind # "feature"
                 /\ outbound' = outbound
       /\ \A j \in SaveBuilds :
              (j \notin DOMAIN pool' \/ pool'[j] # pool[j]) => outbound' = outbound
       /\ \A s \in outbound' :
              s.msg.type = "response" =>
                  \A k \in 1 .. Len(handled') :
                      handled'[k].type = "notification" => handled'[k].seq # s.msg.id]_vars

\* a build started by a save ran its compiler and ended, and the client got
\* no response
C25_Witness ==
    /\ DOMAIN pool = {}
    /\ \E k \in 1 .. Len(compiled) :
           compiled[k].served = {0} /\ compiled[k].status = "SUCCESS"
    /\ \E k \in 1 .. Len(handled) : /\ handled[k].type = "notification"
                                     /\ handled[k].method = "textDocument/didSave"
    /\ \A s \in outbound : s.msg.type # "response"

\* the texts the file system gives
FileTexts == {read.text : read \in READS \ {IoError}}

\* C28: a didChange for a URI that has no document in the workspace applies
\* none of its content changes.  For a local file path the document is
\* loaded from the file system, with the text of the file and the language
\* of its extension, or, when the file cannot be read, the handler returns
\* the error and the workspace is as before; for a URI that is no file path
\* nothing happens.  In each case the viewport and the position table are as
\* before, and no job is submitted.
C28_UnknownChangeLoads ==
    [][(/\ Takes("notification")
        /\ Taken.method = "textDocument/didChange"
        /\ ~Workspace_has(workspace, normalize_uri(Taken.params.uri))) =>
          LET u == normalize_uri(Taken.params.uri)
          IN /\ workspace'.viewport = workspace.viewport
             /\ positions' = positions
             /\ pool' = pool
             /\ \A x \in URIS \ {u} : DocOf(workspace', x) = DocOf(workspace, x)
             /\ IF ~to_file_path_ok(u)
                THEN workspace' = workspace /\ events' = events /\ Taken.io = {}
                ELSE \/ /\ Taken.io = {u}
                        /\ workspace' = workspace
                        /\ events' = events
                     \/ /\ Taken.io = {}
                        /\ Workspace_has(workspace', u)
                        /\ workspace'.docs[u].text \in FileTexts
                        /\ workspace'.docs[u].language = by_path(u)
                        /\ Len(Emitted) = 1
                        /\ Emitted[1].uri = u]_vars

\* a didChange for a source and one for a log loaded both from the file
\* system, and a didChange for a URI that is no file path did nothing
C28_Witness ==
    /\ Len(handled) = 3
    /\ \A k \in 1 .. 3 : /\ handled[k].type = "notification"
                          /\ handled[k].method = "textDocument/didChange"
                          /\ handled[k].io = {}
    /\ {handled[k].params.uri : k \in 1 .. 3} = {FileB, LogA, Untitled}
    /\ DOMAIN workspace.docs = {FileB, LogA}
    /\ workspace.docs[FileB] = Document(<<"a">>, "latex")
    /\ workspace.docs[LogA].language = "log"
    /\ workspace.viewport = {}
    /\ \A u \in URIS : positions[u] = NoPosition

\* the responses sent to the client
Responses == {s \in outbound : s.msg.type = "response"}

\* C29: every response the server has sent carries the id of a request the
\* loop has taken; no two responses carry the same id, so a request rejected
\* as unknown document has the error response and no result; and a request
\* that has its response has no job left in the pool that could answer it
\* again.  The ids of the client's requests are distinct.
C29_AnsweredOnce ==
    \A s \in Responses :
        /\ \E k \in 1 .. Len(handled) :
               handled[k].type = "request" /\ handled[k].seq = s.msg.id
        /\ \A t \in Responses : t.msg.id = s.msg.id => t = s
        /\ \A j \in DOMAIN pool : pool[j].id # s.msg.id

\* a hover for a URI without a document has its error response, a workspace
\* symbol request and an inlay hint to resolve have their results, and the
\* pool has no job left
C29_Witness ==
    /\ Cardinality(Responses) = 3
    /\ \E s \in Responses : ~s.msg.ok /\ s.method = "textDocument/hover"
    /\ \E s \in Responses : s.msg.ok /\ s.method = "workspace/symbol"
    /\ \E s \in Responses :
           /\ s.msg.ok
           /\ \E k \in 1 .. Len(handled) : /\ handled[k].type = "request"
                                            /\ handled[k].method = "inlayHint/resolve"
                                            /\ handled[k].seq = s.msg.id
    /\ DOMAIN pool = {}

\* C26: the loop leaves its running state exactly when it has taken the
\* shutdown request; run() has returned successfully only with an empty
\* pool; and, every job running to its end, the session that took the
\* shutdown request ends: after the exit notification run() waits for the
\* pool and returns.
C26_Terminates ==
    /\ [](loop # "running" <=> ShutdownTaken)
    /\ [](loop = "exited" => DOMAIN pool = {})
    /\ (loop = "joining") ~> (loop = "exited")
    /\ (loop = "shutdown") ~> (loop \in {"exited", "failed"})

\* run() has returned after shutdown and exit, and the hover that was
\* requested before has its result
C26_Witness ==
    /\ loop = "exited"
    /\ \E s \in Responses : s.msg.ok /\ s.method = "textDocument/hover"
    /\ \E k \in 1 .. Len(handled) : /\ handled[k].type = "request"
                                     /\ handled[k].method = "shutdown"

\* the URIs a publishDiagnostics notification was sent for
PublishedUris ==
    {s.msg.uri : s \in {t \in outbound : /\ t.msg.type = "notification"
                                          /\ t.msg.method = "textDocument/publishDiagnostics"}}

\* C27: diagnostic publication is at-least-once.  The session keeps running
\* and the changes come to an end: from some point on every document of the
\* workspace of the last Changed event that is no build log has had a
\* publishDiagnostics notification sent for its URI; and at no time has one
\* been sent for a document that is a build log.
C27_AtLeastOnce ==
    /\ <>[](\A u \in DOMAIN workspace.docs :
                workspace.docs[u].language # "log" => u \in PublishedUris)
    /\ [](\A u \in PublishedUris :
              Workspace_has(workspace, u) /\ workspace.docs[u].language # "log")

====
